---- MODULE Spec2Model ----
(***************************************************************************)
(* State-machine model of the entra-node export tool.                      *)
(*                                                                         *)
(*   - UserProcessor (src/src/services/userProcessor.ts): the bounded      *)
(*     fan-out of processUser over the user list through one p-limit       *)
(*     limiter, the shared ProcessingStats counters and the progress       *)
(*     ticker started with setInterval.                                    *)
(*   - retryWithBackoff (src/unnamed/part_000): the fixed-budget           *)
(*     exponential backoff around one fallible asynchronous operation.     *)
(*                                                                         *)
(* JavaScript runs callbacks to completion: a timer callback or an I/O     *)
(* completion never interleaves with the chain of promise continuations    *)
(* that another completion has started.  The steps of such a chain are     *)
(* separate actions here only where their order matters; the guards        *)
(* AtMacrotask keep timers and completions out of a running chain.         *)
(***************************************************************************)
EXTENDS Integers, Sequences, FiniteSets, TLC

\* ------------------------------------------------------------------ bounds
MaxUsers == 3
MaxConc == 2
ClockStepMs == 250
MaxClockSteps == 2
MaxRetriesBound == 3

\* ------------------------------------------------------- program constants
TickIntervalMs == 500
HttpTooManyRequests == 429
HttpOk == 200
ConfigMaxConcurrency == 20
ConfigMaxRetries == 3
ConfigRetryDelayMs == 2000

VARIABLES
    \* UserProcessor
    users,             \* the users argument of processAllUsers: <<1, .., M>>
    maxConcurrency,    \* this.maxConcurrency
    stats,             \* this.stats: totalUsers, processed, errors, startTime
    pc,                \* position of processAllUsers
    queue,             \* p-limit's queue of submitted, not yet started tasks
    activeCount,       \* p-limit's activeCount
    task,              \* per input index: the promise limit(() => processUser(..))
    started,           \* per input index: number of processUser invocations
    mfa,               \* per input index: the getUserMfaInfo promise
    grp,               \* per input index: the getUserSecurityGroups promise
    lic,               \* per input index: outcome of getUserLicenseDetails
    results,           \* per input index: the slot of Promise.all's result array
    output,            \* the array processAllUsers resolved with
    progressInterval,  \* TRUE while the setInterval timer is armed
    nextTick,          \* due time of the next interval callback
    now,               \* Date.now(), in ms
    clockSteps,        \* number of clock advances so far
    lastRender,        \* the progress line last written
    tickRenders,       \* number of interval callbacks that have run
    finalRenders,      \* number of final progress lines written
    outOfOrder,        \* TRUE once a task settled before one submitted earlier
    \* retryWithBackoff
    maxRetries,        \* options.maxRetries
    retryDelayMs,      \* options.retryDelayMs
    i,                 \* the loop variable
    rpc,               \* position of retryWithBackoff
    fnCalls,           \* number of invocations of fn
    fnErrors,          \* the errors fn rejected with, in order
    waits,             \* the delays passed to setTimeout, in order
    retryResult,       \* what retryWithBackoff settled with
    \* MfaService.getUserMfaInfo
    mfaPc,             \* position of getUserMfaInfo
    response,          \* what executeBatch resolved with
    mfaReturn,         \* what getUserMfaInfo resolved with
    \* GroupService.getUserSecurityGroups
    grpPc,             \* position of getUserSecurityGroups
    memberOf,          \* what the GET of /users/{id}/memberOf resolved with
    groupReturn,       \* what getUserSecurityGroups resolved with
    \* LicenseService and the record synthesis of processUser
    licenseSkuMap,     \* this.licenseSkuMap: skuId -> {displayName, servicePlans}
    buildPc,           \* position of buildLicenseSkuMap
    buildCalls,        \* number of calls of buildLicenseSkuMap
    buildInput,        \* what the two requests of buildLicenseSkuMap gave
    hasPremium,        \* the hasPremium argument of processUser
    inputUser,         \* the user argument: assignedLicenses and signInActivity
    licenseCalls,      \* number of calls of getUserLicenseDetails on inputUser
    licenseReturn,     \* what getUserLicenseDetails returned last
    lastSignIn,        \* the record's 'Last successful sign in'
    \* main
    mainPc,            \* position of main
    snapshot,          \* the object getStats() returned to its caller
    \* UserService.getAllUsers
    listPc,            \* position of getAllUsers
    listed,            \* its local users array
    listReturn,        \* what getAllUsers settled with
    pageError,         \* the error a page request failed with after its retries
    nextLink,          \* its local nextLink: the path of the next request, or null
    \* CsvService.exportToCSV
    csvPc,             \* position of exportToCSV
    csvGiven,          \* the records as the caller passed them
    csvData,           \* the data array it was given (sorted in place)
    csvRows            \* the rows handed to writeRecords

procVars == <<users, maxConcurrency, stats, pc, queue, activeCount, task, started,
              mfa, grp, lic, results, output, progressInterval, nextTick, now,
              clockSteps, lastRender, tickRenders, finalRenders, outOfOrder>>

retryVars == <<maxRetries, retryDelayMs, i, rpc, fnCalls, fnErrors, waits, retryResult>>

mfaVars == <<mfaPc, response, mfaReturn>>

groupVars == <<grpPc, memberOf, groupReturn>>

licVars == <<licenseSkuMap, buildPc, buildCalls, buildInput, hasPremium, inputUser, licenseCalls,
             licenseReturn, lastSignIn>>

mainVars == <<mainPc, snapshot>>

listVars == <<listPc, listed, listReturn, pageError, nextLink>>

csvVars == <<csvPc, csvGiven, csvData, csvRows>>

svcVars == <<mfaVars, groupVars, licVars, mainVars, listVars, csvVars>>

vars == <<procVars, retryVars, svcVars>>

\* ------------------------------------------------------------ value domains
MfaValues == {"Enabled"}
GroupValues == {"Groups"}
ErrorReason == "rejected"
NullishReason == "rejectedNullish"
TypedOutcomes(values) == values \cup {ErrorReason}
AnyOutcomes(values) == values \cup {ErrorReason, NullishReason}

IsRejected(p) == p \in {ErrorReason, NullishReason}
IsResolved(p) == p \notin {"none", "pending", ErrorReason, NullishReason}

Pending == [kind |-> "pending"]
NoRecord == [kind |-> "null"]
NoRender == [kind |-> "none"]

Indices == 1..Len(users)

\* --------------------------------------------------------- pure helpers
\* (ms / 1000).toFixed(0) read back by parseFloat: seconds, rounded half up.
ToFixed0(ms) == (ms + 500) \div 1000

\* (processed / parseFloat(elapsed)).toFixed(1): IEEE division, so a zero
\* divisor gives Infinity, or NaN for 0 / 0; otherwise tenths, rounded.
Rate(processed, elapsed) ==
    IF elapsed = 0
    THEN [kind |-> IF processed = 0 THEN "NaN" ELSE "Infinity", tenths |-> 0]
    ELSE [kind |-> "number", tenths |-> ((processed * 100) \div elapsed + 5) \div 10]

\* ((processed / totalUsers) * 100).toFixed(1)
Percent(processed, totalUsers) ==
    IF totalUsers = 0
    THEN [kind |-> IF processed = 0 THEN "NaN" ELSE "Infinity", tenths |-> 0]
    ELSE [kind |-> "number", tenths |-> ((processed * 10000) \div totalUsers + 5) \div 10]

\* The progress line both the interval callback and the final render write.
ProgressLine(kind, st, t) ==
    LET elapsed == ToFixed0(t - st.startTime)
    IN  [kind |-> kind,
         processed |-> st.processed,
         totalUsers |-> st.totalUsers,
         errors |-> st.errors,
         percent |-> Percent(st.processed, st.totalUsers),
         elapsed |-> elapsed,
         rate |-> Rate(st.processed, elapsed)]

getStats == [f \in DOMAIN stats |-> stats[f]]

\* return { ...this.stats }: a new object with the fields of this.stats.
SameObject(st) == [ref |-> "this.stats", value |-> st]
SpreadCopy(st) == [ref |-> "copy", value |-> [f \in DOMAIN st |-> st[f]]]

\* The record processUser returns (the fields that depend on the lookups).
MakeRecord(u, mfaInfo, securityGroups) ==
    [kind |-> "record", ID |-> u, mfaStatus |-> mfaInfo, securityGroups |-> securityGroups]

\* p-limit starts a submitted task only while activeCount < concurrency.
CanAdmitOffByOne(active, concurrency, q) == active <= concurrency /\ q # <<>>
CanAdmit(active, concurrency, q) == active < concurrency /\ q # <<>>

\* this.stats.processed++ on the success path, this.stats.errors++ in the catch.
StatsAfterCountingEarly(st, outcome) ==
    IF outcome = "success" THEN [st EXCEPT !.processed = @ + 1]
    ELSE IF outcome = "caught" THEN [st EXCEPT !.processed = @ + 1, !.errors = @ + 1]
    ELSE IF outcome = "countedThenCaught"
         THEN [st EXCEPT !.processed = @ + 1, !.errors = @ + 1]
    ELSE st
StatsAfter(st, outcome) ==
    IF outcome = "success" THEN [st EXCEPT !.processed = @ + 1]
    ELSE IF outcome = "caught" THEN [st EXCEPT !.errors = @ + 1]
    ELSE IF outcome = "countedThenCaught"
         THEN [st EXCEPT !.processed = @ + 1, !.errors = @ + 1]
    ELSE st

\* The catch block of processUser: err.message is read for the log line, which
\* throws a TypeError when the rejection reason is null or undefined; otherwise
\* the block returns null and the task is fulfilled.
CatchRethrows(reason) == "rejected"
CatchSettles(reason) == IF reason = NullishReason THEN "rejected" ELSE "fulfilled"

\* Promise.all stores each task's value at the task's input index.
ResultSlotByCompletion(u, nSettled) == nSettled + 1
ResultSlot(u, nSettled) == u

\* results.filter(r => r !== null)
RECURSIVE FilterRecords(_, _)
FilterRecords(res, n) ==
    IF n = 0 THEN <<>>
    ELSE IF res[n].kind = "record"
         THEN Append(FilterRecords(res, n - 1), res[n])
         ELSE FilterRecords(res, n - 1)

AtMacrotask == pc \in {"awaiting", "resolved", "rejected"}
TimerDue == progressInterval /\ now >= nextTick
Settled(u) == task[u] \in {"fulfilled", "rejected"}
InFlight == {u \in Indices : task[u] = "running"}

\* ------------------------------------------------------------ initial state
\* A constructed UserProcessor (stats zeroed, startTime null, written -1) that
\* is about to be handed a list of M users.
ProcConstructed ==
    /\ stats = [totalUsers |-> 0, processed |-> 0, errors |-> 0, startTime |-> -1]
    /\ pc = "idle"
    /\ queue = <<>>
    /\ activeCount = 0
    /\ task = [u \in Indices |-> "new"]
    /\ started = [u \in Indices |-> 0]
    /\ mfa = [u \in Indices |-> "none"]
    /\ grp = [u \in Indices |-> "none"]
    /\ lic = [u \in Indices |-> "none"]
    /\ results = [u \in Indices |-> Pending]
    /\ output = <<>>
    /\ progressInterval = FALSE
    /\ nextTick = 0
    /\ now = 0
    /\ clockSteps = 0
    /\ lastRender = NoRender
    /\ tickRenders = 0
    /\ finalRenders = 0
    /\ outOfOrder = FALSE

ProcInit ==
    /\ users \in {[k \in 1..m |-> k] : m \in 0..MaxUsers}
    /\ maxConcurrency \in 1..MaxConc
    /\ ProcConstructed

RetryIdle ==
    /\ maxRetries = 0
    /\ retryDelayMs = 0
    /\ i = 0
    /\ rpc = "idle"
    /\ fnCalls = 0
    /\ fnErrors = <<>>
    /\ waits = <<>>
    /\ retryResult = [kind |-> "none"]

NoMfaInfo ==
    [defaultMethod |-> "none", mfaStatus |-> "none", emailAuth |-> FALSE,
     fido2Auth |-> FALSE, msAuthenticatorApp |-> FALSE, msAuthenticatorLite |-> FALSE,
     phoneAuth |-> FALSE, softwareOath |-> FALSE, temporaryAccessPass |-> FALSE,
     windowsHello |-> FALSE]

MfaIdle ==
    /\ mfaPc = "idle"
    /\ response = [responses |-> <<>>]
    /\ mfaReturn = NoMfaInfo

EmptyGroups == [groups |-> <<>>, count |-> 0]

GroupIdle ==
    /\ grpPc = "idle"
    /\ memberOf = [hasValue |-> FALSE, value |-> <<>>]
    /\ groupReturn = EmptyGroups

EmptyMap == [id \in {} |-> id]
EmptyDetails == [licenseSkus |-> <<>>, licenseCount |-> 0, servicePlans |-> <<>>]
NoSignInActivity == [present |-> FALSE, lastSuccessfulSignInDateTime |-> "undefined"]
NoUser == [assignedLicenses |-> [present |-> FALSE, list |-> <<>>],
           signInActivity |-> NoSignInActivity]

\* Neither request of buildLicenseSkuMap has been answered.
NoBuildInput == [names |-> "none", outcome |-> [kind |-> "none", value |-> {}]]

\* new LicenseService(..): an empty map; no user is being processed.
LicenseConstructed ==
    /\ licenseSkuMap = EmptyMap
    /\ buildInput = NoBuildInput
    /\ hasPremium = FALSE
    /\ inputUser = NoUser
    /\ licenseCalls = 0
    /\ licenseReturn = EmptyDetails
    /\ lastSignIn = "none"

LicenseIdle == buildPc = "idle" /\ buildCalls = 0 /\ LicenseConstructed

\* No object returned yet; ref tells a returned object from this.stats.
NoSnapshot ==
    [ref |-> "none", value |-> [totalUsers |-> 0, processed |-> 0, errors |-> 0, startTime |-> -1]]

MainIdle == mainPc = "idle" /\ snapshot = NoSnapshot

NotSettled == [kind |-> "none"]

\* A link to a page of /users: the part up to and including the API version
\* ('' in a relative path) and the number of users the page skips.
NullLink == [present |-> FALSE, base |-> "", skip |-> 0]
FirstLink == [present |-> TRUE, base |-> "", skip |-> 0]

ListIdle ==
    /\ listPc = "idle"
    /\ listed = <<>>
    /\ listReturn = NotSettled
    /\ pageError = "none"
    /\ nextLink = NullLink

CsvIdle ==
    /\ csvPc = "idle"
    /\ csvGiven = <<>>
    /\ csvData = <<>>
    /\ csvRows = <<>>

SvcIdle == MfaIdle /\ GroupIdle /\ LicenseIdle /\ MainIdle /\ ListIdle /\ CsvIdle

Init == ProcInit /\ RetryIdle /\ SvcIdle

\* ------------------------------------------------- UserProcessor: actions
\* The four assignments to this.stats at the head of processAllUsers.
StatsAtStartLeavingTotal(st, n, t) == [st EXCEPT !.processed = 0, !.errors = 0, !.startTime = t]
StatsAtStart(st, n, t) == [totalUsers |-> n, processed |-> 0, errors |-> 0, startTime |-> t]

\* processAllUsers up to the await: the counters are reset, the limiter and
\* the interval timer are created, and users.map submits every task to the
\* limiter in input order.
ProcessAllUsersStart ==
    /\ pc = "idle"
    /\ stats' = StatsAtStart(stats, Len(users), now)
    /\ activeCount' = 0
    /\ progressInterval' = TRUE
    /\ nextTick' = now + TickIntervalMs
    /\ queue' = users
    /\ task' = [u \in Indices |-> "queued"]
    /\ pc' = "admitting"
    /\ UNCHANGED <<users, maxConcurrency, started, mfa, grp, lic, results, output, now,
                   clockSteps, lastRender, tickRenders, finalRenders, outOfOrder>>
    /\ UNCHANGED <<retryVars, svcVars>>

\* p-limit takes the next task to start from the front of its queue.
Pop(q) == [head |-> q[Len(q)], rest |-> SubSeq(q, 1, Len(q) - 1)]
Shift(q) == [head |-> Head(q), rest |-> Tail(q)]

\* p-limit's deferred start of the submitted tasks: the head of the queue is
\* started while the limiter has room; processUser then issues both lookups
\* at once.  When no more can start, processAllUsers is left awaiting
\* Promise.all (which is already fulfilled for an empty list).
Admit ==
    /\ pc = "admitting"
    /\ IF CanAdmit(activeCount, maxConcurrency, queue)
       THEN LET h == Shift(queue).head
            IN  /\ queue' = Shift(queue).rest
                /\ activeCount' = activeCount + 1
                /\ task' = [task EXCEPT ![h] = "running"]
                /\ started' = [started EXCEPT ![h] = @ + 1]
                /\ mfa' = [mfa EXCEPT ![h] = "pending"]
                /\ grp' = [grp EXCEPT ![h] = "pending"]
                /\ pc' = pc
       ELSE /\ pc' = IF \A u \in Indices : task[u] = "fulfilled" THEN "joined" ELSE "awaiting"
            /\ UNCHANGED <<queue, activeCount, task, started, mfa, grp>>
    /\ UNCHANGED <<users, maxConcurrency, stats, lic, results, output, progressInterval,
                   nextTick, now, clockSteps, lastRender, tickRenders, finalRenders,
                   outOfOrder>>
    /\ UNCHANGED <<retryVars, svcVars>>

\* A lookup may resolve with undefined; the record literal, which comes after
\* this.stats.processed++, then throws on mfaInfo.defaultMethod or on
\* securityGroups.groups.
UndefinedValue == "undefinedValue"
RecordLiteralThrows(mfaInfo, securityGroups) ==
    mfaInfo = UndefinedValue \/ securityGroups = UndefinedValue

\* await Promise.all([mfa, groups]) is fulfilled when both promises are.
AnyResolved(m, g) == IsResolved(m) \/ IsResolved(g)
AllResolved(m, g) == IsResolved(m) /\ IsResolved(g)

\* One lookup of user u settles, leaving the two promises at mfaNew and grpNew;
\* reason is what it settled with and licOutcome what getUserLicenseDetails
\* does if the join completes.  The continuation of processUser runs when
\* Promise.all([mfa, groups]) settles: at the first rejection, or when both
\* have resolved.  When the task settles, p-limit's next() frees the slot and
\* starts the head of the queue, and the outer Promise.all settles when the
\* last task is fulfilled or the first task is rejected.
LookupSettles(u, mfaNew, grpNew, reason, licOutcome) ==
    LET running == task[u] = "running"
        joinRejected == running /\ IsRejected(reason)
        joinFulfilled == running /\ AllResolved(mfaNew, grpNew)
        threw == joinFulfilled /\ licOutcome = "throw"
        literalThrew == joinFulfilled /\ licOutcome = "ok"
                           /\ RecordLiteralThrows(mfaNew, grpNew)
        succeeded == joinFulfilled /\ licOutcome = "ok" /\ ~literalThrew
        caught == joinRejected \/ threw \/ literalThrew
        settles == caught \/ succeeded
        taskNew == IF succeeded THEN "fulfilled"
                   ELSE IF caught
                        THEN CatchSettles(IF threw \/ literalThrew THEN ErrorReason ELSE reason)
                   ELSE task[u]
        value == IF succeeded THEN MakeRecord(u, mfaNew, grpNew) ELSE NoRecord
        nSettled == Cardinality({v \in Indices : Settled(v)})
        slot == ResultSlot(u, nSettled)
        startsNext == settles /\ queue # <<>>
        h == Shift(queue).head
        task1 == [task EXCEPT ![u] = taskNew]
        task2 == IF startsNext THEN [task1 EXCEPT ![h] = "running"] ELSE task1
        mfa1 == [mfa EXCEPT ![u] = mfaNew]
        grp1 == [grp EXCEPT ![u] = grpNew]
    IN  /\ stats' = StatsAfter(stats, IF succeeded THEN "success"
                                      ELSE IF literalThrew THEN "countedThenCaught"
                                      ELSE IF caught THEN "caught" ELSE "pending")
        /\ lic' = IF joinFulfilled THEN [lic EXCEPT ![u] = licOutcome] ELSE lic
        /\ results' = IF settles /\ taskNew = "fulfilled"
                      THEN [results EXCEPT ![slot] = value]
                      ELSE results
        /\ task' = task2
        /\ queue' = IF startsNext THEN Shift(queue).rest ELSE queue
        /\ activeCount' = IF settles /\ ~startsNext THEN activeCount - 1 ELSE activeCount
        /\ started' = IF startsNext THEN [started EXCEPT ![h] = @ + 1] ELSE started
        /\ mfa' = IF startsNext THEN [mfa1 EXCEPT ![h] = "pending"] ELSE mfa1
        /\ grp' = IF startsNext THEN [grp1 EXCEPT ![h] = "pending"] ELSE grp1
        /\ outOfOrder' = (outOfOrder \/ (settles /\ \E v \in Indices : v < u /\ ~Settled(v)))
        /\ pc' = IF pc = "awaiting" /\ taskNew = "rejected" THEN "rejected"
                 ELSE IF pc = "awaiting" /\ \A v \in Indices : task2[v] = "fulfilled"
                      THEN "joined"
                 ELSE pc
        /\ UNCHANGED <<users, maxConcurrency, output, progressInterval, nextTick, now,
                       clockSteps, lastRender, tickRenders, finalRenders>>
        /\ UNCHANGED <<retryVars, svcVars>>

\* this.mfaService.getUserMfaInfo(user.id) settles with outcome o.
MfaSettle(u, o, licOutcome) ==
    /\ AtMacrotask
    /\ mfa[u] = "pending"
    /\ LookupSettles(u, o, grp[u], o, licOutcome)

\* this.groupService.getUserSecurityGroups(user.id) settles with outcome o.
GroupSettle(u, o, licOutcome) ==
    /\ AtMacrotask
    /\ grp[u] = "pending"
    /\ LookupSettles(u, mfa[u], o, o, licOutcome)

\* global.clearInterval(progressInterval), the statement after the await.
ClearInterval ==
    /\ pc = "joined"
    /\ progressInterval' = FALSE
    /\ pc' = "cleared"
    /\ UNCHANGED <<users, maxConcurrency, stats, queue, activeCount, task, started, mfa,
                   grp, lic, results, output, nextTick, now, clockSteps, lastRender,
                   tickRenders, finalRenders, outOfOrder>>
    /\ UNCHANGED <<retryVars, svcVars>>

StaleProgressLine == IF lastRender = NoRender THEN ProgressLine("final", stats, now)
                     ELSE [lastRender EXCEPT !.kind = "final"]
FinalProgressLine == ProgressLine("final", stats, now)

\* The final progress line, written with console.log after the timer is cleared.
FinalRender ==
    /\ pc = "cleared"
    /\ lastRender' = FinalProgressLine
    /\ finalRenders' = finalRenders + 1
    /\ pc' = "rendered"
    /\ UNCHANGED <<users, maxConcurrency, stats, queue, activeCount, task, started, mfa,
                   grp, lic, results, output, progressInterval, nextTick, now, clockSteps,
                   tickRenders, outOfOrder>>
    /\ UNCHANGED <<retryVars, svcVars>>

\* return results.filter(r => r !== null): processAllUsers resolves.
Return ==
    /\ pc = "rendered"
    /\ output' = FilterRecords(results, Len(users))
    /\ pc' = "resolved"
    /\ UNCHANGED <<users, maxConcurrency, stats, queue, activeCount, task, started, mfa,
                   grp, lic, results, progressInterval, nextTick, now, clockSteps,
                   lastRender, tickRenders, finalRenders, outOfOrder>>
    /\ UNCHANGED <<retryVars, svcVars>>

\* The setInterval callback: reads the counters and overwrites the line.
Tick ==
    /\ AtMacrotask
    /\ TimerDue
    /\ lastRender' = ProgressLine("tick", stats, now)
    /\ tickRenders' = tickRenders + 1
    /\ nextTick' = nextTick + TickIntervalMs
    /\ UNCHANGED <<users, maxConcurrency, stats, pc, queue, activeCount, task, started,
                   mfa, grp, lic, results, output, progressInterval, now, clockSteps,
                   finalRenders, outOfOrder>>
    /\ UNCHANGED <<retryVars, svcVars>>

\* Wall-clock time passes while the event loop is idle; a due timer fires first.
\* Only the interval callback and the final render read the clock, so time is
\* tracked while the timer is armed.
Advance ==
    /\ AtMacrotask
    /\ progressInterval
    /\ ~TimerDue
    /\ clockSteps < MaxClockSteps
    /\ now' = now + ClockStepMs
    /\ clockSteps' = clockSteps + 1
    /\ UNCHANGED <<users, maxConcurrency, stats, pc, queue, activeCount, task, started,
                   mfa, grp, lic, results, output, progressInterval, nextTick, lastRender,
                   tickRenders, finalRenders, outOfOrder>>
    /\ UNCHANGED <<retryVars, svcVars>>

MfaSettles == \E u \in Indices, o \in TypedOutcomes(MfaValues) : MfaSettle(u, o, "ok")
GroupSettles == \E u \in Indices, o \in TypedOutcomes(GroupValues) : GroupSettle(u, o, "ok")
MfaSettlesNullish == \E u \in Indices : MfaSettle(u, NullishReason, "ok")
GroupSettlesNullish == \E u \in Indices : GroupSettle(u, NullishReason, "ok")

\* The run with lookups that reject, if they do, with an Error object.
Next ==
    \/ ProcessAllUsersStart
    \/ Admit
    \/ MfaSettles
    \/ GroupSettles
    \/ ClearInterval
    \/ FinalRender
    \/ Return
    \/ Tick
    \/ Advance

Spec == Init /\ [][Next]_vars

\* The same run with injected lookups that may also reject with null or
\* undefined (a promise may be rejected with any value).
NextAnyReason == Next \/ MfaSettlesNullish \/ GroupSettlesNullish

SpecAnyReason == Init /\ [][NextAnyReason]_vars

\* The run with injected collaborators of any behaviour short of a nullish
\* rejection: a lookup resolves with a value or with undefined or rejects with
\* an Error, and getUserLicenseDetails returns or throws.
LicenseOutcomes == {"ok", "throw"}
MfaSettlesAny ==
    \E u \in Indices, o \in TypedOutcomes(MfaValues) \cup {UndefinedValue},
       l \in LicenseOutcomes : MfaSettle(u, o, l)
GroupSettlesAny ==
    \E u \in Indices, o \in TypedOutcomes(GroupValues) \cup {UndefinedValue},
       l \in LicenseOutcomes : GroupSettle(u, o, l)

NextAnyOutcome ==
    \/ ProcessAllUsersStart
    \/ Admit
    \/ MfaSettlesAny
    \/ GroupSettlesAny
    \/ ClearInterval
    \/ FinalRender
    \/ Return
    \/ Tick
    \/ Advance

SpecAnyOutcome == Init /\ [][NextAnyOutcome]_vars

\* ---------------------------------------------------------------- CONFIG
\* The numeric fields of the default configuration.
CONFIG ==
    [maxConcurrency |-> ConfigMaxConcurrency, batchSize |-> 20,
     maxRetries |-> ConfigMaxRetries, retryDelayMs |-> ConfigRetryDelayMs]

NoOverrides == [f \in {} |-> 0]

\* getConfig(overrides): { ...CONFIG, ...overrides }
getConfig(overrides) ==
    [f \in DOMAIN CONFIG \cup DOMAIN overrides |->
        IF f \in DOMAIN overrides THEN overrides[f] ELSE CONFIG[f]]

\* main builds its UserProcessor with getConfig().maxConcurrency.
InitDefaultConfig ==
    /\ users \in {[k \in 1..m |-> k] : m \in 0..MaxUsers}
    /\ maxConcurrency = getConfig(NoOverrides).maxConcurrency
    /\ ProcConstructed
    /\ RetryIdle
    /\ SvcIdle

SpecDefaultConfig == InitDefaultConfig /\ [][Next]_vars

\* ------------------------------------------------------- retryWithBackoff
\* The errors fn is made to reject with: an optional statusCode (0: absent)
\* and an optional message ("undefined": absent).
FnErrorShapes ==
    { [statusCode |-> HttpTooManyRequests, message |-> "undefined"],
      [statusCode |-> 0, message |-> "Request was throttled"],
      [statusCode |-> 0, message |-> "Too Many Requests"],
      [statusCode |-> 0, message |-> "Throttled by gateway"],
      [statusCode |-> 500, message |-> "Internal Server Error"] }

RetryDelays == {100, 2000}

\* String.prototype.includes on the messages above (case-sensitive).
MessageIncludes(message, needle) ==
    <<message, needle>> \in { <<"Request was throttled", "throttled">>,
                              <<"Too Many Requests", "Too Many Requests">> }

AnyErrorIsThrottling(error) == TRUE
OnlyStatusCodeIsThrottling(error) == error.statusCode = HttpTooManyRequests
isThrottlingError(error) ==
    \/ error.statusCode = HttpTooManyRequests
    \/ (error.message # "undefined" /\ MessageIncludes(error.message, "throttled"))
    \/ (error.message # "undefined" /\ MessageIncludes(error.message, "Too Many Requests"))

RECURSIVE Pow2(_)
Pow2(n) == IF n = 0 THEN 1 ELSE 2 * Pow2(n - 1)

\* const delay = retryDelayMs * Math.pow(2, i)
FixedDelay(delayMs, attempt) == delayMs
BackoffDelay(delayMs, attempt) == delayMs * Pow2(attempt)

\* if (isThrottled && i < maxRetries - 1)
WaitsEvenOnLastAttempt(isThrottled, attempt, budget) == isThrottled /\ attempt < budget
ShouldWait(isThrottled, attempt, budget) == isThrottled /\ attempt < budget - 1

UnexpectedError ==
    [statusCode |-> 0, message |-> "Retry logic failed unexpectedly", attempt |-> 0]

RECURSIVE SumSeq(_)
SumSeq(q) == IF q = <<>> THEN 0 ELSE Head(q) + SumSeq(Tail(q))

ProcIdle ==
    /\ users = <<>>
    /\ maxConcurrency = 1
    /\ ProcConstructed

\* retryWithBackoff has been called with options {maxRetries, retryDelayMs}.
RetryInit ==
    /\ maxRetries \in 0..MaxRetriesBound
    /\ retryDelayMs \in RetryDelays
    /\ i = 0
    /\ rpc = "loop"
    /\ fnCalls = 0
    /\ fnErrors = <<>>
    /\ waits = <<>>
    /\ retryResult = [kind |-> "none"]

InitRetry == ProcIdle /\ RetryInit /\ SvcIdle

\* The loop test and, inside the loop, the call of fn; past the loop, the
\* closing throw.
RetryLoop ==
    /\ rpc = "loop"
    /\ IF i < maxRetries
       THEN /\ fnCalls' = fnCalls + 1
            /\ rpc' = "awaitFn"
            /\ UNCHANGED retryResult
       ELSE /\ rpc' = "rejected"
            /\ retryResult' = [kind |-> "rejected", error |-> UnexpectedError]
            /\ UNCHANGED fnCalls
    /\ UNCHANGED <<maxRetries, retryDelayMs, i, fnErrors, waits>>
    /\ UNCHANGED <<procVars, svcVars>>

\* return await fn(): fn resolved.
FnResolves ==
    /\ rpc = "awaitFn"
    /\ rpc' = "resolved"
    /\ retryResult' = [kind |-> "resolved", value |-> "success", attempt |-> fnCalls]
    /\ UNCHANGED <<maxRetries, retryDelayMs, i, fnCalls, fnErrors, waits>>
    /\ UNCHANGED <<procVars, svcVars>>

\* The catch block: fn rejected with an error of the given shape.
FnRejects(shape) ==
    /\ rpc = "awaitFn"
    /\ LET error == [statusCode |-> shape.statusCode, message |-> shape.message,
                     attempt |-> fnCalls]
           isThrottled == isThrottlingError(error)
       IN  /\ fnErrors' = Append(fnErrors, error)
           /\ IF ShouldWait(isThrottled, i, maxRetries)
              THEN /\ waits' = Append(waits, BackoffDelay(retryDelayMs, i))
                   /\ rpc' = "waiting"
                   /\ UNCHANGED retryResult
              ELSE /\ rpc' = "rejected"
                   /\ retryResult' = [kind |-> "rejected", error |-> error]
                   /\ UNCHANGED waits
    /\ UNCHANGED <<maxRetries, retryDelayMs, i, fnCalls>>
    /\ UNCHANGED <<procVars, svcVars>>

\* The setTimeout of the backoff fires: the loop goes round (i++).
BackoffElapsed ==
    /\ rpc = "waiting"
    /\ i' = i + 1
    /\ rpc' = "loop"
    /\ UNCHANGED <<maxRetries, retryDelayMs, fnCalls, fnErrors, waits, retryResult>>
    /\ UNCHANGED <<procVars, svcVars>>

FnRejectsSome == \E shape \in FnErrorShapes : FnRejects(shape)

NextRetry ==
    \/ RetryLoop
    \/ FnResolves
    \/ FnRejectsSome
    \/ BackoffElapsed

SpecRetry == InitRetry /\ [][NextRetry]_vars

\* ------------------------------------- a request that rejects with nothing
\* fn may reject with undefined (Promise.reject()).  The catch block of
\* retryWithBackoff then raises a TypeError on error.statusCode, and it is this
\* TypeError that retryWithBackoff rejects with.
UndefinedReason(attempt) ==
    [statusCode |-> 0, message |-> "undefined", attempt |-> attempt, nullish |-> TRUE]
IsNullish(error) == "nullish" \in DOMAIN error
TypeErrorAt(attempt) ==
    [statusCode |-> 0, message |-> "Cannot read properties of undefined",
     attempt |-> attempt]

RethrownAsIs(reason, attempt) == reason
ThrownByCatch(reason, attempt) == IF IsNullish(reason) THEN TypeErrorAt(attempt) ELSE reason

FnRejectsWithUndefined ==
    /\ rpc = "awaitFn"
    /\ fnErrors' = Append(fnErrors, UndefinedReason(fnCalls))
    /\ rpc' = "rejected"
    /\ retryResult' = [kind |-> "rejected",
                       error |-> ThrownByCatch(UndefinedReason(fnCalls), fnCalls)]
    /\ UNCHANGED <<maxRetries, retryDelayMs, i, fnCalls, waits>>
    /\ UNCHANGED <<procVars, svcVars>>

\* ------------------------------------------- MfaService.getUserMfaInfo
MaxMethods == 2

\* The authentication methods a user may have registered: the seven types the
\* lookup recognises (the authenticator with and without an activated software
\* token) and one it does not.
AuthMethods ==
    {[type |-> "#microsoft.graph.emailAuthenticationMethod", deviceTag |-> "undefined"],
     [type |-> "#microsoft.graph.fido2AuthenticationMethod", deviceTag |-> "undefined"],
     [type |-> "#microsoft.graph.microsoftAuthenticatorAuthenticationMethod",
      deviceTag |-> "SoftwareTokenActivated"],
     [type |-> "#microsoft.graph.microsoftAuthenticatorAuthenticationMethod",
      deviceTag |-> "undefined"],
     [type |-> "#microsoft.graph.phoneAuthenticationMethod", deviceTag |-> "undefined"],
     [type |-> "#microsoft.graph.softwareOathAuthenticationMethod", deviceTag |-> "undefined"],
     [type |-> "#microsoft.graph.temporaryAccessPassAuthenticationMethod",
      deviceTag |-> "undefined"],
     [type |-> "#microsoft.graph.windowsHelloForBusinessAuthenticationMethod",
      deviceTag |-> "undefined"],
     [type |-> "#microsoft.graph.passwordAuthenticationMethod", deviceTag |-> "undefined"]}

MethodLists == UNION {[1..n -> AuthMethods] : n \in 0..MaxMethods}

\* A sub-response of the batch: its status and its body.  The body of a
\* successful methods call is {value: [...]}, of a successful preference call
\* {userPreferredMethodForSecondaryAuthentication: ..}, of a failed call
\* {error: ..}; kind "undefined" is a sub-response that carries no body.
Body(kind, value, preferred) == [kind |-> kind, value |-> value, preferred |-> preferred]

\* createBatchRequest gives the request at index k of urls the id String(k + 1).
RequestId(index) == <<"1", "2">>[index + 1]

MethodsResponses ==
    {[id |-> RequestId(0), status |-> HttpOk, body |-> Body("methods", l, "undefined")] :
        l \in MethodLists}
    \cup {[id |-> RequestId(0), status |-> HttpOk, body |-> Body("undefined", <<>>, "undefined")],
          [id |-> RequestId(0), status |-> 404, body |-> Body("error", <<>>, "undefined")]}

PreferenceResponses ==
    {[id |-> RequestId(1), status |-> HttpOk, body |-> Body("preference", <<>>, p)] :
        p \in {"push", "undefined"}}
    \cup {[id |-> RequestId(1), status |-> HttpOk, body |-> Body("undefined", <<>>, "undefined")],
          [id |-> RequestId(1), status |-> 403, body |-> Body("error", <<>>, "undefined")]}

\* What the POST to /$batch can resolve with: the two sub-responses, in the
\* order of the requests, or fewer.
BatchResponses ==
    {[responses |-> <<>>]}
    \cup {[responses |-> <<m>>] : m \in MethodsResponses}
    \cup {[responses |-> <<m, p>>] : m \in MethodsResponses, p \in PreferenceResponses}

\* response.responses[k]?.status === 200
AnyStatusIsOk(resp, k) == Len(resp.responses) >= k
SubResponseOk(resp, k) == Len(resp.responses) >= k /\ resp.responses[k].status = HttpOk

\* The catch block's value.
SentinelMfaInfo ==
    [defaultMethod |-> "Error", mfaStatus |-> "Unknown", emailAuth |-> FALSE,
     fido2Auth |-> FALSE, msAuthenticatorApp |-> FALSE, msAuthenticatorLite |-> FALSE,
     phoneAuth |-> FALSE, softwareOath |-> FALSE, temporaryAccessPass |-> FALSE,
     windowsHello |-> FALSE]

Has(methods, type) == \E k \in 1..Len(methods) : methods[k].type = type

\* The @odata.type values with a branch in the forEach of getUserMfaInfo.
EveryType == {m.type : m \in AuthMethods}
RecognisedTypes == {m.type : m \in AuthMethods} \ {"#microsoft.graph.passwordAuthenticationMethod"}

\* The body of the try block of getUserMfaInfo, from the response on.  Reading
\* .value of a missing body, iterating a missing .value, and reading the
\* preference of a missing body raise a TypeError, which the catch block turns
\* into the sentinel.
MfaInfoOf(resp) ==
    LET methodsOk == SubResponseOk(resp, 1)
        prefOk == SubResponseOk(resp, 2)
        raises == \/ methodsOk /\ resp.responses[1].body.kind # "methods"
                  \/ prefOk /\ resp.responses[2].body.kind = "undefined"
        mfaMethods == IF methodsOk THEN resp.responses[1].body.value ELSE <<>>
        preferred == IF prefOk /\ resp.responses[2].body.kind = "preference"
                     THEN resp.responses[2].body.preferred
                     ELSE "undefined"
        authenticator == "#microsoft.graph.microsoftAuthenticatorAuthenticationMethod"
        recognised == RecognisedTypes
    IN  IF raises
        THEN SentinelMfaInfo
        ELSE [defaultMethod |-> IF preferred = "undefined" THEN "Not set" ELSE preferred,
              mfaStatus |-> IF \E t \in recognised : Has(mfaMethods, t)
                            THEN "Enabled" ELSE "Disabled",
              emailAuth |-> Has(mfaMethods, "#microsoft.graph.emailAuthenticationMethod"),
              fido2Auth |-> Has(mfaMethods, "#microsoft.graph.fido2AuthenticationMethod"),
              msAuthenticatorApp |->
                  \E k \in 1..Len(mfaMethods) :
                      /\ mfaMethods[k].type = authenticator
                      /\ mfaMethods[k].deviceTag = "SoftwareTokenActivated",
              msAuthenticatorLite |->
                  \E k \in 1..Len(mfaMethods) :
                      /\ mfaMethods[k].type = authenticator
                      /\ mfaMethods[k].deviceTag # "SoftwareTokenActivated",
              phoneAuth |-> Has(mfaMethods, "#microsoft.graph.phoneAuthenticationMethod"),
              softwareOath |->
                  Has(mfaMethods, "#microsoft.graph.softwareOathAuthenticationMethod"),
              temporaryAccessPass |->
                  Has(mfaMethods, "#microsoft.graph.temporaryAccessPassAuthenticationMethod"),
              windowsHello |->
                  Has(mfaMethods,
                      "#microsoft.graph.windowsHelloForBusinessAuthenticationMethod")]

\* getUserMfaInfo has built the batch request and called executeBatch, which
\* has called retryWithBackoff around the POST.
MfaInit ==
    /\ mfaPc = "executeBatch"
    /\ response = [responses |-> <<>>]
    /\ mfaReturn = NoMfaInfo

\* The BatchService carries the retry options of CONFIG.
ConfiguredRetryInit ==
    /\ maxRetries = ConfigMaxRetries
    /\ retryDelayMs = ConfigRetryDelayMs
    /\ i = 0
    /\ rpc = "loop"
    /\ fnCalls = 0
    /\ fnErrors = <<>>
    /\ waits = <<>>
    /\ retryResult = [kind |-> "none"]

InitMfa == ProcIdle /\ ConfiguredRetryInit /\ MfaInit /\ GroupIdle /\ LicenseIdle /\ MainIdle /\ ListIdle /\ CsvIdle

\* The POST to /$batch resolves with a response, which retryWithBackoff
\* returns.
PostResolves(resp) ==
    /\ rpc = "awaitFn"
    /\ rpc' = "resolved"
    /\ retryResult' = [kind |-> "resolved", value |-> resp, attempt |-> fnCalls]
    /\ UNCHANGED <<maxRetries, retryDelayMs, i, fnCalls, fnErrors, waits>>
    /\ UNCHANGED <<procVars, svcVars>>

\* The catch block of executeBatch logs the error and returns {responses: []}.
BatchRethrows(error) == [kind |-> "rejected", value |-> [responses |-> <<>>]]
BatchCatch(error) == [kind |-> "resolved", value |-> [responses |-> <<>>]]

\* retryWithBackoff resolved: executeBatch returns the response, and the try
\* block of getUserMfaInfo runs on it.
ExecuteBatchReturns ==
    /\ mfaPc = "executeBatch"
    /\ rpc = "resolved"
    /\ response' = retryResult.value
    /\ mfaReturn' = MfaInfoOf(retryResult.value)
    /\ mfaPc' = "resolved"
    /\ UNCHANGED <<procVars, retryVars, groupVars, licVars, mainVars, listVars, csvVars>>

\* retryWithBackoff rejected: the catch block of executeBatch logs and returns
\* {responses: []}, and the try block of getUserMfaInfo runs on that.  (Were
\* executeBatch to reject, the catch block of getUserMfaInfo would return the
\* sentinel.)
ExecuteBatchCatches ==
    /\ mfaPc = "executeBatch"
    /\ rpc = "rejected"
    /\ LET settled == BatchCatch(retryResult.error)
       IN  IF settled.kind = "resolved"
           THEN /\ response' = settled.value
                /\ mfaReturn' = MfaInfoOf(settled.value)
                /\ mfaPc' = "resolved"
           ELSE /\ UNCHANGED response
                /\ mfaReturn' = SentinelMfaInfo
                /\ mfaPc' = "caught"
    /\ UNCHANGED <<procVars, retryVars, groupVars, licVars, mainVars, listVars, csvVars>>

PostResolvesSome == \E resp \in BatchResponses : PostResolves(resp)

NextMfa ==
    \/ RetryLoop
    \/ PostResolvesSome
    \/ FnRejectsSome
    \/ BackoffElapsed
    \/ FnRejectsWithUndefined
    \/ ExecuteBatchReturns
    \/ ExecuteBatchCatches

SpecMfa == InitMfa /\ [][NextMfa]_vars

\* The same lookup against a server that may list the entries of a $batch
\* response in another order than the requests; the id of an entry tells
\* which request it answers.
Reversed(resp) ==
    [responses |-> [k \in 1..Len(resp.responses) |->
                       resp.responses[Len(resp.responses) + 1 - k]]]
BatchResponsesAnyOrder == BatchResponses \cup {Reversed(resp) : resp \in BatchResponses}

PostResolvesAnyOrder == \E resp \in BatchResponsesAnyOrder : PostResolves(resp)

NextMfaAnyOrder ==
    \/ RetryLoop
    \/ PostResolvesAnyOrder
    \/ FnRejectsSome
    \/ BackoffElapsed
    \/ FnRejectsWithUndefined
    \/ ExecuteBatchReturns
    \/ ExecuteBatchCatches

SpecMfaAnyOrder == InitMfa /\ [][NextMfaAnyOrder]_vars

\* ------------------------------------ GroupService.getUserSecurityGroups
MaxMemberships == 3

\* Display names, as their sequences of UTF-16 code units: "AB", "B", "C", "D".
NameAB == <<65, 66>>
NameB == <<66>>
NameC == <<67>>
NameD == <<68>>

\* The order of Array.prototype.sort() without a comparator: by code units.
RECURSIVE StrLess(_, _)
StrLess(a, b) ==
    IF a = <<>> THEN b # <<>>
    ELSE IF b = <<>> THEN FALSE
    ELSE IF Head(a) # Head(b) THEN Head(a) < Head(b)
    ELSE StrLess(Tail(a), Tail(b))

RECURSIVE InsertSorted(_, _)
InsertSorted(x, q) ==
    IF q = <<>> THEN <<x>>
    ELSE IF StrLess(x, Head(q)) THEN <<x>> \o q
    ELSE <<Head(q)>> \o InsertSorted(x, Tail(q))

RECURSIVE sort(_)
sort(q) == IF q = <<>> THEN <<>> ELSE InsertSorted(Head(q), sort(Tail(q)))

\* Directory objects a user may be a member of.
Memberships ==
    {[type |-> "#microsoft.graph.group", securityEnabled |-> TRUE, displayName |-> NameB],
     [type |-> "#microsoft.graph.group", securityEnabled |-> TRUE, displayName |-> NameAB],
     [type |-> "#microsoft.graph.group", securityEnabled |-> FALSE, displayName |-> NameC],
     [type |-> "#microsoft.graph.administrativeUnit", securityEnabled |-> TRUE,
      displayName |-> NameD]}

\* What the GET can resolve with: {value: [...]}, or an object without value.
MemberOfResponses ==
    {[hasValue |-> TRUE, value |-> l] :
        l \in UNION {[1..n -> Memberships] : n \in 0..MaxMemberships}}
    \cup {[hasValue |-> FALSE, value |-> <<>>]}

\* group['@odata.type'] === '#microsoft.graph.group' && group.securityEnabled
AnyGroupObject(group) == group.type = "#microsoft.graph.group"
IsSecurityGroup(group) == group.type = "#microsoft.graph.group" /\ group.securityEnabled

RECURSIVE filter(_)
filter(q) ==
    IF q = <<>> THEN <<>>
    ELSE IF IsSecurityGroup(Head(q)) THEN <<Head(q)>> \o filter(Tail(q))
    ELSE filter(Tail(q))

\* The try block past the await.
SecurityGroupsOf(resp) ==
    LET securityGroups == filter(resp.value)
    IN  [groups |-> sort([k \in 1..Len(securityGroups) |-> securityGroups[k].displayName]),
         count |-> Len(securityGroups)]

\* The catch block: it reads err.message, logs, and returns the empty result;
\* reading .message of undefined would raise out of the catch block.
GroupRethrows(error) == "rejected"
GroupCatch(error) == IF IsNullish(error) THEN "rejected" ELSE "resolved"

\* getUserSecurityGroups has called retryWithBackoff around the GET.
GroupInit ==
    /\ grpPc = "retryWithBackoff"
    /\ memberOf = [hasValue |-> FALSE, value |-> <<>>]
    /\ groupReturn = EmptyGroups

InitGroup == ProcIdle /\ RetryInit /\ MfaIdle /\ GroupInit /\ LicenseIdle /\ MainIdle /\ ListIdle /\ CsvIdle

\* retryWithBackoff resolved: the rest of the try block runs; response.value
\* of a response without value raises a TypeError into the catch block.
MemberOfReturns(resp) ==
    /\ grpPc = "retryWithBackoff"
    /\ rpc = "resolved"
    /\ memberOf' = resp
    /\ IF resp.hasValue
       THEN /\ groupReturn' = SecurityGroupsOf(resp)
            /\ grpPc' = "resolved"
       ELSE /\ groupReturn' = EmptyGroups
            /\ grpPc' = GroupCatch(TypeErrorAt(fnCalls))
    /\ UNCHANGED <<procVars, retryVars, mfaVars, licVars, mainVars, listVars, csvVars>>

\* retryWithBackoff rejected: the catch block runs on its reason.
MemberOfFails ==
    /\ grpPc = "retryWithBackoff"
    /\ rpc = "rejected"
    /\ grpPc' = GroupCatch(retryResult.error)
    /\ groupReturn' = EmptyGroups
    /\ UNCHANGED memberOf
    /\ UNCHANGED <<procVars, retryVars, mfaVars, licVars, mainVars, listVars, csvVars>>

MemberOfReturnsSome == \E resp \in MemberOfResponses : MemberOfReturns(resp)

NextGroup ==
    \/ RetryLoop
    \/ FnResolves
    \/ FnRejectsSome
    \/ BackoffElapsed
    \/ FnRejectsWithUndefined
    \/ MemberOfReturnsSome
    \/ MemberOfFails

SpecGroup == InitGroup /\ [][NextGroup]_vars

\* ------------------------- LicenseService and the record of processUser
MaxAssignments == 2

\* Strings that get sorted, as their sequences of UTF-16 code units.
SkuS1 == <<115, 49>>
SkuS2 == <<115, 50>>
SkuS3 == <<115, 51>>
SkuX == <<88>>
PartZP == <<90, 80>>
PartAP == <<65, 80>>
PartAQ == <<65, 81>>
NameA == <<65>>
NameZ == <<90>>
PlanP == <<80>>
PlanQ == <<81>>
PlanR == <<82>>

Plan(id, name, status) ==
    [servicePlanId |-> id, servicePlanName |-> name, provisioningStatus |-> status]

\* The SKUs the tenant may be subscribed to, as /subscribedSkus returns them.
SubscribedSkus ==
    {[skuId |-> SkuS1, skuPartNumber |-> PartZP,
      servicePlans |-> <<Plan("p1", PlanQ, "Success"), Plan("p2", PlanP, "Success")>>],
     [skuId |-> SkuS2, skuPartNumber |-> PartAP,
      servicePlans |-> <<Plan("p2", PlanP, "Success"), Plan("p3", PlanR, "PendingInput")>>],
     [skuId |-> SkuS3, skuPartNumber |-> PartAQ,
      servicePlans |-> <<Plan("p3", PlanR, "Success")>>]}

\* The friendly names SkuMappingService holds after buildSkuFriendlyNameMap:
\* none when the download failed, else names by part number and by GUID.
NoFriendlyNames == [byStringId |-> <<>>, byGuid |-> <<>>]
FriendlyNames ==
    [byStringId |-> (PartZP :> NameZ) @@ (PartAP :> NameA), byGuid |-> (SkuS3 :> NameA)]

\* friendlyName = byStringId(partNumber) || byGuid(skuId) || partNumber || skuId
FriendlyNameOrSkuId(sku, names) ==
    IF sku.skuPartNumber \in DOMAIN names.byStringId
    THEN names.byStringId[sku.skuPartNumber]
    ELSE IF sku.skuId \in DOMAIN names.byGuid
    THEN names.byGuid[sku.skuId]
    ELSE sku.skuId
FriendlyNameOf(sku, names) ==
    IF sku.skuPartNumber \in DOMAIN names.byStringId
    THEN names.byStringId[sku.skuPartNumber]
    ELSE IF sku.skuId \in DOMAIN names.byGuid
    THEN names.byGuid[sku.skuId]
    ELSE sku.skuPartNumber

\* What the await of retryWithBackoff in buildLicenseSkuMap can give.
BuildOutcomes ==
    {[kind |-> "response", value |-> v] : v \in SUBSET SubscribedSkus}
    \cup {[kind |-> "rejected", value |-> {}]}

\* response.value.forEach(sku => this.licenseSkuMap.set(sku.skuId, {...}))
MapAfterBuild(map, skus, names) ==
    LET ids == {sku.skuId : sku \in skus}
        bySkuId(id) == CHOOSE sku \in skus : sku.skuId = id
    IN  [id \in DOMAIN map \cup ids |->
            IF id \in ids
            THEN [displayName |-> FriendlyNameOf(bySkuId(id), names),
                  servicePlans |-> bySkuId(id).servicePlans]
            ELSE map[id]]

\* The elements of assignedLicenses.
Assignments ==
    {[skuId |-> id, disabledPlans |-> d] : id \in {SkuS1, SkuS2}, d \in {{}, {"p2"}}}
    \cup {[skuId |-> id, disabledPlans |-> {}] : id \in {SkuS3, SkuX}}

AssignedLicenses ==
    {[present |-> TRUE, list |-> l] :
        l \in UNION {[1..n -> Assignments] : n \in 0..MaxAssignments}}
    \cup {[present |-> FALSE, list |-> <<>>]}

SignInActivities ==
    {NoSignInActivity,
     [present |-> TRUE, lastSuccessfulSignInDateTime |-> "undefined"],
     [present |-> TRUE, lastSuccessfulSignInDateTime |-> "2025-01-01T00:00:00Z"]}

\* [...new Set(q)]: first occurrences, in order.
RECURSIVE Dedupe(_)
Dedupe(q) ==
    IF q = <<>> THEN <<>>
    ELSE LET front == Dedupe(SubSeq(q, 1, Len(q) - 1))
             last == q[Len(q)]
         IN  IF \E k \in 1..Len(front) : front[k] = last THEN front ELSE Append(front, last)

\* skuInfo ? skuInfo.displayName : license.skuId
CatalogNameOnly(map, license) ==
    IF license.skuId \in DOMAIN map THEN map[license.skuId].displayName ELSE <<>>
LicenseName(map, license) ==
    IF license.skuId \in DOMAIN map THEN map[license.skuId].displayName ELSE license.skuId

\* !disabledPlans.includes(plan.servicePlanId) && plan.provisioningStatus === 'Success'
PlanProvisioned(plan, disabledPlans) == plan.provisioningStatus = "Success"
PlanEnabled(plan, disabledPlans) ==
    plan.servicePlanId \notin disabledPlans /\ plan.provisioningStatus = "Success"

RECURSIVE EnabledPlanNames(_, _)
EnabledPlanNames(plans, disabledPlans) ==
    IF plans = <<>> THEN <<>>
    ELSE (IF PlanEnabled(Head(plans), disabledPlans)
          THEN <<Head(plans).servicePlanName>> ELSE <<>>)
         \o EnabledPlanNames(Tail(plans), disabledPlans)

\* The plan names added to allServicePlans, in the order of the two loops.
RECURSIVE AddedPlans(_, _)
AddedPlans(map, list) ==
    IF list = <<>> THEN <<>>
    ELSE (IF Head(list).skuId \in DOMAIN map
          THEN EnabledPlanNames(map[Head(list).skuId].servicePlans, Head(list).disabledPlans)
          ELSE <<>>)
         \o AddedPlans(map, Tail(list))

getUserLicenseDetails(map, assignedLicenses) ==
    IF ~assignedLicenses.present \/ assignedLicenses.list = <<>>
    THEN EmptyDetails
    ELSE LET list == assignedLicenses.list
             licenseNames == [k \in 1..Len(list) |-> LicenseName(map, list[k])]
         IN  [licenseSkus |-> sort(Dedupe(licenseNames)),
              licenseCount |-> Len(list),
              servicePlans |-> sort(Dedupe(AddedPlans(map, list)))]

\* What a call of getUserLicenseDetails leaves in the map: it only calls get.
CatalogCachingUnknownSkus(map, assignedLicenses) ==
    LET ids == {assignedLicenses.list[k].skuId : k \in 1..Len(assignedLicenses.list)}
    IN  [id \in DOMAIN map \cup ids |->
            IF id \in DOMAIN map THEN map[id]
            ELSE [displayName |-> id, servicePlans |-> <<>>]]
CatalogAfterLookup(map, assignedLicenses) == map

\* The 'Last successful sign in' field.
LastSignInUngated(premium, activity) ==
    IF activity.present /\ activity.lastSuccessfulSignInDateTime # "undefined"
    THEN activity.lastSuccessfulSignInDateTime
    ELSE IF premium THEN "No sign in" ELSE "No Microsoft Entra ID Premium license"
LastSignIn(premium, activity) ==
    IF premium /\ activity.present /\ activity.lastSuccessfulSignInDateTime # "undefined"
    THEN activity.lastSuccessfulSignInDateTime
    ELSE IF premium THEN "No sign in" ELSE "No Microsoft Entra ID Premium license"

\* buildLicenseSkuMap has been called on a new LicenseService.
LicenseInit == buildPc = "running" /\ buildCalls = 1 /\ LicenseConstructed

InitRecord == ProcIdle /\ RetryIdle /\ MfaIdle /\ GroupIdle /\ LicenseInit /\ MainIdle /\ ListIdle /\ CsvIdle

\* The catch block of buildLicenseSkuMap logs the error and a note that SKU
\* ids will be shown; it throws nothing, so the promise is fulfilled.
BuildRethrows(outcome) == outcome.kind
BuildCatch(outcome) == "settled"

\* buildLicenseSkuMap settles: with the friendly names it fetched first, it
\* fills the map from the response, or logs the failure; it resolves in
\* either case.
BuildLicenseSkuMapSettles(names, outcome) ==
    /\ buildPc = "running"
    /\ buildPc' = IF outcome.kind = "rejected" THEN BuildCatch(outcome) ELSE "settled"
    /\ licenseSkuMap' = IF outcome.kind = "response"
                        THEN MapAfterBuild(licenseSkuMap, outcome.value, names)
                        ELSE licenseSkuMap
    /\ buildInput' = [names |-> IF names = NoFriendlyNames THEN "unreachable" ELSE "loaded",
                      outcome |-> outcome]
    /\ UNCHANGED <<buildCalls, hasPremium, inputUser, licenseCalls, licenseReturn, lastSignIn>>
    /\ UNCHANGED <<procVars, retryVars, mfaVars, groupVars, mainVars, listVars, csvVars>>

\* processUser past its await, on a user and hasPremium: the license details
\* and the sign-in field of the record.
SynthesizeRecord(assignedLicenses, activity, premium) ==
    /\ buildPc = "settled"
    /\ licenseCalls = 0
    /\ inputUser' = [assignedLicenses |-> assignedLicenses, signInActivity |-> activity]
    /\ hasPremium' = premium
    /\ licenseReturn' = getUserLicenseDetails(licenseSkuMap, assignedLicenses)
    /\ licenseSkuMap' = CatalogAfterLookup(licenseSkuMap, assignedLicenses)
    /\ lastSignIn' = LastSignIn(premium, activity)
    /\ licenseCalls' = 1
    /\ UNCHANGED <<buildPc, buildCalls, buildInput>>
    /\ UNCHANGED <<procVars, retryVars, mfaVars, groupVars, mainVars, listVars, csvVars>>

\* getUserLicenseDetails once more on the same assignments.
GetUserLicenseDetailsAgain ==
    /\ licenseCalls = 1
    /\ licenseReturn' = getUserLicenseDetails(licenseSkuMap, inputUser.assignedLicenses)
    /\ licenseSkuMap' = CatalogAfterLookup(licenseSkuMap, inputUser.assignedLicenses)
    /\ licenseCalls' = 2
    /\ UNCHANGED <<buildPc, buildCalls, buildInput, hasPremium, inputUser, lastSignIn>>
    /\ UNCHANGED <<procVars, retryVars, mfaVars, groupVars, mainVars, listVars, csvVars>>

BuildLicenseSkuMapSettlesSome ==
    \E names \in {NoFriendlyNames, FriendlyNames}, outcome \in BuildOutcomes :
        BuildLicenseSkuMapSettles(names, outcome)

SynthesizeRecordSome ==
    \E a \in AssignedLicenses, activity \in SignInActivities, premium \in BOOLEAN :
        SynthesizeRecord(a, activity, premium)

NextRecord ==
    \/ BuildLicenseSkuMapSettlesSome
    \/ SynthesizeRecordSome
    \/ GetUserLicenseDetailsAgain

SpecRecord == InitRecord /\ [][NextRecord]_vars

\* ------------------------------------------------ UserService.getAllUsers
MaxListedUsers == 2

\* users stands for the users of the directory; the server hands them out in
\* pages, in order, each page but the last with an '@odata.nextLink'.

\* The errors retryWithBackoff can reject a page request with.
PageErrors == {"Too Many Requests", "Internal Server Error"}

\* The catch block of getAllUsers: it logs and rethrows.
ListCatchReturnsPartial(partial, error) ==
    [kind |-> "resolved", value |-> partial, error |-> "none"]
ListCatch(partial, error) == [kind |-> "rejected", value |-> <<>>, error |-> error]

\* The response of GET <link> when the server puts k users on the page: the
\* users past those the link skips and, unless they are the last, the
\* absolute URL of the next page.
GraphBase == "https://graph.microsoft.com/v1.0"
GraphResponse(link, k) ==
    [value |-> SubSeq(users, link.skip + 1, link.skip + k),
     odataNextLink |-> IF link.skip + k < Len(users)
                       THEN [present |-> TRUE, base |-> GraphBase, skip |-> link.skip + k]
                       ELSE NullLink]

\* response['@odata.nextLink'].split('/v1.0')[1]: what follows the version.
SplitAfterVersion(link) == [link EXCEPT !.base = ""]

\* nextLink = response['@odata.nextLink'] ? ....split('/v1.0')[1] : null
NextLinkOf(resp) ==
    IF resp.odataNextLink.present THEN SplitAfterVersion(resp.odataNextLink) ELSE NullLink

\* users = users.concat(response.value)
ConcatPage(sofar, page) == sofar \o page

\* while (nextLink)
SinglePage(link) == FALSE
MorePages(link) == link.present

\* The body of the loop after its await: the page is appended, and the loop
\* goes on to the next link, or ends and getAllUsers returns the array.
PageAppended(resp) ==
    LET appended == ConcatPage(listed, resp.value)
    IN  /\ listed' = appended
        /\ nextLink' = NextLinkOf(resp)
        /\ IF MorePages(NextLinkOf(resp))
           THEN UNCHANGED <<listPc, listReturn>>
           ELSE /\ listPc' = "resolved"
                /\ listReturn' = [kind |-> "resolved", value |-> appended, error |-> "none"]

\* The sizes of the page the server can answer GET <link> with: a page is
\* empty only when no user is left.
PageSizes(link) ==
    {k \in 0..MaxListedUsers :
        /\ k <= Len(users) - link.skip
        /\ k = 0 => Len(users) = link.skip}

\* A page request resolved with the next k users.
PageResolves(k) ==
    /\ listPc = "paging"
    /\ k \in PageSizes(nextLink)
    /\ PageAppended(GraphResponse(nextLink, k))
    /\ UNCHANGED pageError
    /\ UNCHANGED <<procVars, retryVars, mfaVars, groupVars, licVars, mainVars, csvVars>>

\* A page request failed after its retries: the catch block runs.
PageFails(error) ==
    /\ listPc = "paging"
    /\ pageError' = error
    /\ listReturn' = ListCatch(listed, error)
    /\ listPc' = ListCatch(listed, error).kind
    /\ UNCHANGED <<listed, nextLink>>
    /\ UNCHANGED <<procVars, retryVars, mfaVars, groupVars, licVars, mainVars, csvVars>>

PageResolvesSome == \E k \in 0..MaxListedUsers : PageResolves(k)
PageFailsSome == \E error \in PageErrors : PageFails(error)

\* getAllUsers with its page requests spelled out: every round of the loop
\* calls retryWithBackoff(() => client.api(nextLink).get(), retryOptions).
\* fnErrors and waits log the errors and the delays of all the calls so far.
RetryCalled ==
    /\ i' = 0
    /\ rpc' = "loop"
    /\ fnCalls' = 0
    /\ retryResult' = [kind |-> "none"]
    /\ UNCHANGED <<maxRetries, retryDelayMs, fnErrors, waits>>

\* The GET of the page resolved: retryWithBackoff returns the response, the
\* page is appended and, if there is a next link, the next request is made.
PageRequestResolves(k) ==
    /\ listPc = "paging"
    /\ rpc = "awaitFn"
    /\ k \in PageSizes(nextLink)
    /\ PageAppended(GraphResponse(nextLink, k))
    /\ IF MorePages(NextLinkOf(GraphResponse(nextLink, k)))
       THEN RetryCalled
       ELSE /\ rpc' = "resolved"
            /\ retryResult' = [kind |-> "resolved", value |-> "success", attempt |-> fnCalls]
            /\ UNCHANGED <<maxRetries, retryDelayMs, i, fnCalls, fnErrors, waits>>
    /\ UNCHANGED pageError
    /\ UNCHANGED <<procVars, mfaVars, groupVars, licVars, mainVars, csvVars>>

\* retryWithBackoff rejected: the catch block of getAllUsers runs.
PageRequestFails ==
    /\ rpc = "rejected"
    /\ PageFails(retryResult.error.message)

PageRequestResolvesSome == \E k \in 0..MaxListedUsers : PageRequestResolves(k)

\* getAllUsers has been called and has made its first request.
InitList ==
    /\ users \in {[k \in 1..m |-> k] : m \in 0..MaxListedUsers}
    /\ maxConcurrency = 1
    /\ ProcConstructed
    /\ ConfiguredRetryInit
    /\ MfaIdle
    /\ GroupIdle
    /\ LicenseIdle
    /\ MainIdle
    /\ listPc = "paging"
    /\ listed = <<>>
    /\ listReturn = NotSettled
    /\ pageError = "none"
    /\ nextLink = FirstLink
    /\ CsvIdle

NextList ==
    \/ RetryLoop
    \/ FnRejectsSome
    \/ BackoffElapsed
    \/ PageRequestResolvesSome
    \/ PageRequestFails

SpecList == InitList /\ [][NextList]_vars

\* ------------------------------------------------- CsvService.exportToCSV
MaxRecords == 3

\* Display names as sequences of UTF-16 code units: '', 'a', 'B', 'b'.
DisplayNames == {<<>>, <<97>>, <<66>>, <<98>>}

\* The 'Display name' field of a record: a string, or undefined.
DisplayNameValues ==
    {[defined |-> TRUE, name |-> n] : n \in DisplayNames}
    \cup {[defined |-> FALSE, name |-> <<>>]}

\* The arrays exportToCSV is called with; ID tells the records apart.
CsvInputs ==
    UNION {{[k \in 1..n |-> [ID |-> k, displayName |-> f[k]]] :
               f \in [1..n -> DisplayNameValues]} : n \in 0..MaxRecords}

\* a['Display name'] || '' : undefined and '' both give ''.
DisplayNameAsString(rec) ==
    IF rec.displayName.defined THEN rec.displayName.name
    ELSE <<117, 110, 100, 101, 102, 105, 110, 101, 100>>
DisplayNameOrEmpty(rec) ==
    IF rec.displayName.defined THEN rec.displayName.name ELSE <<>>

\* String.prototype.localeCompare on strings of ASCII letters: the letters
\* are compared without regard to case first; strings equal in that are
\* ordered by case at the first difference, lower case before upper case.
Fold(c) == IF c \in 65..90 THEN c + 32 ELSE c

RECURSIVE PrimaryCompare(_, _)
PrimaryCompare(a, b) ==
    IF a = <<>> /\ b = <<>> THEN 0
    ELSE IF a = <<>> THEN -1
    ELSE IF b = <<>> THEN 1
    ELSE IF Fold(Head(a)) < Fold(Head(b)) THEN -1
    ELSE IF Fold(Head(a)) > Fold(Head(b)) THEN 1
    ELSE PrimaryCompare(Tail(a), Tail(b))

RECURSIVE TertiaryCompare(_, _)
TertiaryCompare(a, b) ==
    IF a = <<>> \/ b = <<>> THEN 0
    ELSE IF Head(a) = Head(b) THEN TertiaryCompare(Tail(a), Tail(b))
    ELSE IF Head(a) > Head(b) THEN -1
    ELSE 1

localeCompare(a, b) ==
    IF PrimaryCompare(a, b) # 0 THEN PrimaryCompare(a, b) ELSE TertiaryCompare(a, b)

\* The comparator passed to data.sort.
CompareRecords(a, b) == localeCompare(DisplayNameOrEmpty(a), DisplayNameOrEmpty(b))

\* Array.prototype.sort with a comparator is stable: an element goes after
\* every earlier element that does not compare greater.
RECURSIVE InsertStable(_, _)
InsertStable(x, s) ==
    IF s = <<>> THEN <<x>>
    ELSE IF CompareRecords(x, Head(s)) < 0 THEN <<x>> \o s
    ELSE <<Head(s)>> \o InsertStable(x, Tail(s))

RECURSIVE SortByDisplayName(_)
SortByDisplayName(data) ==
    IF data = <<>> THEN <<>>
    ELSE InsertStable(data[Len(data)], SortByDisplayName(SubSeq(data, 1, Len(data) - 1)))

\* The catch block of exportToCSV logs and rethrows.
ExportCatch == "rejected"

\* exportToCSV(data) runs up to its first await, of mkdir.
ExportToCsvStarts(data) ==
    /\ csvPc = "idle"
    /\ csvPc' = "mkdir"
    /\ csvGiven' = data
    /\ csvData' = data
    /\ UNCHANGED csvRows

ExportToCsvCalled(data) ==
    /\ ExportToCsvStarts(data)
    /\ UNCHANGED <<procVars, retryVars, mfaVars, groupVars, licVars, mainVars, listVars>>

\* mkdir settles: the array is sorted in place and handed to writeRecords,
\* or the catch block rethrows.
MkdirSettles(ok) ==
    /\ csvPc = "mkdir"
    /\ IF ok
       THEN /\ csvData' = SortByDisplayName(csvData)
            /\ csvPc' = "writeRecords"
       ELSE /\ csvPc' = ExportCatch
            /\ UNCHANGED csvData
    /\ UNCHANGED <<csvGiven, csvRows>>
    /\ UNCHANGED <<procVars, retryVars, mfaVars, groupVars, licVars, mainVars, listVars>>

\* writeRecords settles: the rows are in the file and exportToCSV returns the
\* path, or the catch block rethrows.
WriteRecordsSettles(ok) ==
    /\ csvPc = "writeRecords"
    /\ IF ok
       THEN /\ csvRows' = csvData
            /\ csvPc' = "resolved"
       ELSE /\ csvPc' = ExportCatch
            /\ UNCHANGED csvRows
    /\ UNCHANGED <<csvGiven, csvData>>
    /\ UNCHANGED <<procVars, retryVars, mfaVars, groupVars, licVars, mainVars, listVars>>

ExportToCsvCalledSome == \E data \in CsvInputs : ExportToCsvCalled(data)
MkdirSettlesSome == \E ok \in BOOLEAN : MkdirSettles(ok)
WriteRecordsSettlesSome == \E ok \in BOOLEAN : WriteRecordsSettles(ok)

InitCsv == ProcIdle /\ RetryIdle /\ MfaIdle /\ GroupIdle /\ LicenseIdle /\ MainIdle /\ ListIdle /\ CsvIdle

NextCsv ==
    \/ ExportToCsvCalledSome
    \/ MkdirSettlesSome
    \/ WriteRecordsSettlesSome

SpecCsv == InitCsv /\ [][NextCsv]_vars

\* ------------------------------------------------------------------ main
\* main from the construction of the services on.  users stands for the users
\* of the directory, which getAllUsers returns and main passes on.

\* await p: main goes on only once p has settled.
NotAwaited(settled) == TRUE
Awaited(settled) == settled

\* The outcomes of the subscribed-SKU call seen by a run of main.
MainBuildOutcomes ==
    {[kind |-> "response", value |-> SubscribedSkus], [kind |-> "rejected", value |-> {}]}

\* The services are constructed and buildLicenseSkuMap has been called.
InitMain ==
    /\ users \in {[k \in 1..m |-> k] : m \in 0..MaxListedUsers}
    /\ maxConcurrency \in 1..MaxConc
    /\ ProcConstructed
    /\ RetryIdle
    /\ MfaIdle
    /\ GroupIdle
    /\ LicenseInit
    /\ mainPc = "buildLicenseSkuMap"
    /\ snapshot = NoSnapshot
    /\ ListIdle
    /\ CsvIdle

BuildLicenseSkuMapSettlesInMain ==
    \E outcome \in MainBuildOutcomes : BuildLicenseSkuMapSettles(FriendlyNames, outcome)

\* await licenseService.buildLicenseSkuMap() is over: main calls
\* checkPremiumSubscription.
MainAfterBuild ==
    /\ mainPc = "buildLicenseSkuMap"
    /\ Awaited(buildPc \in {"settled", "rejected"})
    /\ mainPc' = IF buildPc = "rejected" THEN "exit1" ELSE "checkPremiumSubscription"
    /\ UNCHANGED snapshot
    /\ UNCHANGED <<procVars, retryVars, mfaVars, groupVars, licVars, listVars, csvVars>>

\* checkPremiumSubscription resolves (it catches its failures and then
\* resolves with false): main calls getAllUsers(hasPremium), which requests
\* the first page.
CheckPremiumSubscriptionSettles(premium) ==
    /\ mainPc = "checkPremiumSubscription"
    /\ hasPremium' = premium
    /\ mainPc' = "getAllUsers"
    /\ UNCHANGED snapshot
    /\ listPc' = "paging"
    /\ nextLink' = FirstLink
    /\ UNCHANGED <<licenseSkuMap, buildPc, buildCalls, buildInput, inputUser, licenseCalls, licenseReturn,
                   lastSignIn>>
    /\ UNCHANGED <<listed, listReturn, pageError>>
    /\ UNCHANGED <<procVars, retryVars, mfaVars, groupVars, csvVars>>

\* getAllUsers settles: a rejection goes to the catch block of main, an empty
\* list makes main return, any other list is handed to processAllUsers.
GetAllUsersSettles ==
    /\ mainPc = "getAllUsers"
    /\ listReturn.kind # "none"
    /\ mainPc' = IF listReturn.kind = "rejected" THEN "exit1"
                 ELSE IF Len(listReturn.value) = 0 THEN "returned"
                 ELSE "processAllUsers"
    /\ UNCHANGED snapshot
    /\ UNCHANGED <<procVars, retryVars, mfaVars, groupVars, licVars, listVars, csvVars>>

\* userProcessor.processAllUsers(users, hasPremium) is called on the list
\* getAllUsers resolved with.
MainProcessAllUsers ==
    /\ mainPc = "processAllUsers"
    /\ listReturn.value = users
    /\ ProcessAllUsersStart

\* 'Display name': user.displayName, for the users of the directory: the
\* first is named 'b', the second 'a', any other has no display name.
DisplayNameOfUser(u) ==
    IF u = 1 THEN [defined |-> TRUE, name |-> <<98>>]
    ELSE IF u = 2 THEN [defined |-> TRUE, name |-> <<97>>]
    ELSE [defined |-> FALSE, name |-> <<>>]

CsvRecordsOf(records) ==
    [k \in 1..Len(records) |-> [ID |-> records[k].ID, displayName |-> DisplayNameOfUser(records[k].ID)]]

\* await processAllUsers is over: main calls exportToCSV, or its catch block
\* runs.
MainAfterProcessAllUsers ==
    /\ mainPc = "processAllUsers"
    /\ pc \in {"resolved", "rejected"}
    /\ IF pc = "resolved"
       THEN /\ mainPc' = "exportToCSV"
            /\ ExportToCsvStarts(CsvRecordsOf(output))
       ELSE /\ mainPc' = "exit1"
            /\ UNCHANGED csvVars
    /\ UNCHANGED snapshot
    /\ UNCHANGED <<procVars, retryVars, mfaVars, groupVars, licVars, listVars>>

\* exportToCSV settles: the summary is printed from getStats(), or the catch
\* block runs.
ExportToCsvSettles ==
    /\ mainPc = "exportToCSV"
    /\ csvPc \in {"resolved", "rejected"}
    /\ mainPc' = IF csvPc = "resolved" THEN "done" ELSE "exit1"
    /\ snapshot' = IF csvPc = "resolved" THEN SpreadCopy(stats) ELSE snapshot
    /\ UNCHANGED <<procVars, retryVars, mfaVars, groupVars, licVars, listVars, csvVars>>

CheckPremiumSubscriptionSettlesSome ==
    \E premium \in BOOLEAN : CheckPremiumSubscriptionSettles(premium)

NextMain ==
    \/ BuildLicenseSkuMapSettlesInMain
    \/ MainAfterBuild
    \/ CheckPremiumSubscriptionSettlesSome
    \/ PageResolvesSome
    \/ PageFailsSome
    \/ GetAllUsersSettles
    \/ MainProcessAllUsers
    \/ Admit
    \/ MfaSettles
    \/ GroupSettles
    \/ ClearInterval
    \/ FinalRender
    \/ Return
    \/ Tick
    \/ Advance
    \/ MainAfterProcessAllUsers
    \/ MkdirSettlesSome
    \/ WriteRecordsSettlesSome
    \/ ExportToCsvSettles

SpecMain == InitMain /\ [][NextMain]_vars

\* The run under the scheduling the event loop guarantees: a ready promise
\* continuation is run, and an issued lookup eventually settles.  The steps
\* other than the clock's are finitely many, so weak fairness of their
\* disjunction lets none of them wait forever.
Progress ==
    \/ Admit
    \/ MfaSettles
    \/ GroupSettles
    \/ ClearInterval
    \/ FinalRender
    \/ Return

\* The runs whose termination is checked: lists of up to MaxFairUsers users.
MaxFairUsers == 2

FairInit ==
    /\ users \in {[k \in 1..m |-> k] : m \in 0..MaxFairUsers}
    /\ maxConcurrency \in 1..MaxConc
    /\ ProcConstructed
    /\ RetryIdle
    /\ SvcIdle

FairSpec == FairInit /\ [][Next]_vars /\ WF_vars(Progress)

\* ------------------------------ one UserProcessor, processAllUsers twice
MaxRuns == 2

\* A caller overwrites a counter of an object: obj[field] = 99.
Overwrite(obj, field) == [obj EXCEPT ![field] = 99]

\* processAllUsers(next, hasPremium) is called again on the same instance
\* once the call before has resolved: the counters are reset, and a new
\* limiter, a new interval timer and new tasks are created.
ProcessAllUsersAgain(next) ==
    /\ pc = "resolved"
    /\ finalRenders < MaxRuns
    /\ users' = next
    /\ stats' = StatsAtStart(stats, Len(next), now)
    /\ activeCount' = 0
    /\ progressInterval' = TRUE
    /\ nextTick' = now + TickIntervalMs
    /\ queue' = next
    /\ task' = [u \in 1..Len(next) |-> "queued"]
    /\ started' = [u \in 1..Len(next) |-> 0]
    /\ mfa' = [u \in 1..Len(next) |-> "none"]
    /\ grp' = [u \in 1..Len(next) |-> "none"]
    /\ lic' = [u \in 1..Len(next) |-> "none"]
    /\ results' = [u \in 1..Len(next) |-> Pending]
    /\ pc' = "admitting"
    /\ UNCHANGED <<maxConcurrency, output, now, clockSteps, lastRender, tickRenders,
                   finalRenders, outOfOrder>>
    /\ UNCHANGED <<retryVars, svcVars>>

\* A caller calls getStats() between or after the runs.
GetStatsCalled ==
    /\ pc = "resolved"
    /\ snapshot' = SpreadCopy(stats)
    /\ snapshot' # snapshot
    /\ UNCHANGED mainPc
    /\ UNCHANGED <<procVars, retryVars, mfaVars, groupVars, licVars, listVars, csvVars>>

\* The caller assigns to a counter of the object it was given; this.stats
\* changes with it only if that object is this.stats itself.
CallerModifiesSnapshot(field) ==
    /\ snapshot.ref # "none"
    /\ snapshot.value # Overwrite(snapshot.value, field)
    /\ snapshot' = [snapshot EXCEPT !.value = Overwrite(snapshot.value, field)]
    /\ stats' = IF snapshot.ref = "this.stats" THEN Overwrite(stats, field) ELSE stats
    /\ UNCHANGED <<users, maxConcurrency, pc, queue, activeCount, task, started, mfa, grp,
                   lic, results, output, progressInterval, nextTick, now, clockSteps,
                   lastRender, tickRenders, finalRenders, outOfOrder>>
    /\ UNCHANGED mainPc
    /\ UNCHANGED <<retryVars, mfaVars, groupVars, licVars, listVars, csvVars>>

ProcessAllUsersAgainSome ==
    \E next \in {[k \in 1..m |-> k] : m \in 0..MaxFairUsers} : ProcessAllUsersAgain(next)
CallerModifiesSnapshotSome ==
    \E field \in {"totalUsers", "processed", "errors"} : CallerModifiesSnapshot(field)

NextTwoRuns ==
    \/ ProcessAllUsersStart
    \/ Admit
    \/ MfaSettles
    \/ GroupSettles
    \/ ClearInterval
    \/ FinalRender
    \/ Return
    \/ ProcessAllUsersAgainSome
    \/ GetStatsCalled
    \/ CallerModifiesSnapshotSome

\* A processor with room for one user at a time, about to be handed its
\* first list.
InitTwoRuns ==
    /\ users \in {[k \in 1..m |-> k] : m \in 0..MaxFairUsers}
    /\ maxConcurrency = 1
    /\ ProcConstructed
    /\ RetryIdle
    /\ SvcIdle

SpecTwoRuns == InitTwoRuns /\ [][NextTwoRuns]_vars

\* ================================================================ claims
MfaFailed == {u \in Indices : IsRejected(mfa[u])}
Succeeded(u) == IsResolved(mfa[u]) /\ IsResolved(grp[u]) /\ lic[u] = "ok"
OutputIds == {output[j].ID : j \in 1..Len(output)}

\* C1: at every instant of processAllUsers the number of processUser
\* invocations that have started and not yet settled is at most
\* maxConcurrency, over the whole user list (one limiter, no chunks).
C1_ConcurrencyBound ==
    /\ Cardinality(InFlight) <= maxConcurrency
    /\ activeCount = Cardinality(InFlight)

\* C1 witness: more users than slots, the window full, and a task from beyond
\* the first maxConcurrency users running beside one of the first.
C1_Witness ==
    /\ Len(users) > maxConcurrency
    /\ Cardinality(InFlight) = maxConcurrency
    /\ \E u, v \in InFlight : u <= maxConcurrency /\ maxConcurrency < v

\* C2: when exactly k users' MFA lookups rejected and no other lookup failed,
\* processAllUsers resolves with exactly M-k records, getStats() reports
\* errors = k and processed = M-k, and every other user's record is the one
\* built from that user's own lookup results.
C2_FailureIsolation ==
    (/\ pc = "resolved"
     /\ \A u \in Indices : ~IsRejected(grp[u]) /\ lic[u] # "throw")
    => /\ Len(output) = Len(users) - Cardinality(MfaFailed)
       /\ getStats.errors = Cardinality(MfaFailed)
       /\ getStats.processed = Len(users) - Cardinality(MfaFailed)
       /\ \A u \in Indices \ MfaFailed :
              \E j \in 1..Len(output) : output[j] = MakeRecord(u, "Enabled", "Groups")
       /\ OutputIds \cap MfaFailed = {}

\* C2 witness: three users, one MFA lookup rejected, two records returned.
C2_Witness ==
    /\ pc = "resolved"
    /\ \A u \in Indices : ~IsRejected(grp[u]) /\ lic[u] # "throw"
    /\ Cardinality(MfaFailed) = 1
    /\ Len(output) >= 2

\* C3: the returned array lists the successfully processed users in input
\* order, whatever the order in which the tasks completed.
C3_OrderPreserved ==
    pc = "resolved"
    => /\ OutputIds = {u \in Indices : Succeeded(u)}
       /\ Len(output) = Cardinality(OutputIds)
       /\ \A j, k \in 1..Len(output) : j < k => output[j].ID < output[k].ID

\* C3 witness: every user succeeded, at least two of them, and some task
\* settled before a task submitted earlier.
C3_Witness ==
    /\ pc = "resolved"
    /\ outOfOrder
    /\ Len(users) >= 2
    /\ Len(output) = Len(users)

C5_TickerStoppedOnEveryExit ==
    [][(pc \in {"resolved", "rejected"}) => (tickRenders' = tickRenders)]_vars

\* C6: the final progress line is written exactly once, after the timer is
\* cleared and every task has settled, it shows the final getStats() values,
\* and no tick overwrites it.
C6_FinalRender ==
    /\ finalRenders <= 1
    /\ pc = "resolved" => finalRenders = 1
    /\ finalRenders = 1 =>
          /\ ~progressInterval
          /\ \A u \in Indices : Settled(u)
          /\ lastRender.kind = "final"
          /\ lastRender.processed = getStats.processed
          /\ lastRender.errors = getStats.errors
          /\ lastRender.totalUsers = getStats.totalUsers

\* C6 witness: a resolved run in which a tick had rendered before the last
\* task settled, and a user failed.
C6_Witness ==
    /\ pc = "resolved"
    /\ tickRenders >= 1
    /\ finalRenders = 1
    /\ lastRender.kind = "final"
    /\ lastRender.errors >= 1
    /\ lastRender.processed >= 1

\* C7: no progress render divides processed by zero: when the elapsed time in
\* whole seconds is 0 the rate shown is still a number.
C7_RateGuarded ==
    (lastRender # NoRender /\ lastRender.elapsed = 0) => lastRender.rate.kind = "number"

\* The throttling errors as the retry contract names them.
ClaimedThrottling(error) ==
    \/ error.statusCode = 429
    \/ error.message \in {"Request was throttled", "Too Many Requests"}
AllThrottled == \A k \in 1..Len(fnErrors) : ClaimedThrottling(fnErrors[k])

\* C8: with maxRetries >= 1 and fn failing with a throttling error on every
\* attempt, fn is invoked exactly maxRetries times and retryWithBackoff rejects
\* with the last attempt's error; fn is never invoked more than maxRetries times.
C8_BudgetExhausted ==
    /\ fnCalls <= maxRetries
    /\ (rpc = "rejected" /\ maxRetries >= 1 /\ AllThrottled)
       => /\ fnCalls = maxRetries
          /\ Len(fnErrors) = maxRetries
          /\ retryResult = [kind |-> "rejected", error |-> fnErrors[Len(fnErrors)]]

\* C8 witness: three throttled attempts, of more than one form, then rejection.
C8_Witness ==
    /\ rpc = "rejected"
    /\ maxRetries = 3
    /\ fnCalls = 3
    /\ AllThrottled
    /\ \E j, k \in 1..Len(fnErrors) : fnErrors[j].statusCode # fnErrors[k].statusCode

\* C9: only throttling errors are retried: a failure that is not a throttling
\* error is the last one, re-raised at once with no wait after it and no
\* further invocation of fn, whatever attempts remain.
C9_NonThrottlingNotRetried ==
    \A k \in 1..Len(fnErrors) :
        ~ClaimedThrottling(fnErrors[k])
        => /\ k = Len(fnErrors)
           /\ rpc = "rejected"
           /\ retryResult = [kind |-> "rejected", error |-> fnErrors[k]]
           /\ fnCalls = k
           /\ Len(waits) = k - 1

\* C9 witness: a throttled attempt, then a non-throttling failure with an
\* attempt still left in the budget.
C9_Witness ==
    /\ rpc = "rejected"
    /\ Len(fnErrors) = 2
    /\ ClaimedThrottling(fnErrors[1])
    /\ ~ClaimedThrottling(fnErrors[2])
    /\ fnCalls < maxRetries

\* C10: the wait after the failed attempt with index i is retryDelayMs * 2^i,
\* one wait per retried failure, so n throttled attempts followed by a success
\* have waited retryDelayMs * (2^n - 1) in total.
C10_BackoffSchedule ==
    /\ \A k \in 1..Len(waits) : waits[k] = retryDelayMs * Pow2(k - 1)
    /\ rpc = "resolved"
       => /\ Len(waits) = Len(fnErrors)
          /\ fnCalls = Len(fnErrors) + 1
          /\ SumSeq(waits) = retryDelayMs * (Pow2(Len(fnErrors)) - 1)

\* C10 witness: maxRetries 3, retryDelayMs 100, two 429s then success: three
\* invocations and 100 + 200 = 300 ms of waiting.
C10_Witness ==
    /\ rpc = "resolved"
    /\ maxRetries = 3
    /\ retryDelayMs = 100
    /\ fnCalls = 3
    /\ \A k \in 1..Len(fnErrors) : fnErrors[k].statusCode = 429
    /\ waits = <<100, 200>>
    /\ SumSeq(waits) = 300

\* C11: when fn fails with throttling errors, of any of the three recognised
\* forms, on its first n attempts and succeeds on attempt n+1 <= maxRetries,
\* retryWithBackoff resolves with that value after exactly n+1 invocations (it
\* does not give up while throttled attempts remain); a success on the first
\* attempt is one invocation and no wait.
C11_SucceedsAfterThrottling ==
    /\ rpc = "resolved"
       => /\ AllThrottled
          /\ fnCalls = Len(fnErrors) + 1
          /\ fnCalls <= maxRetries
          /\ retryResult = [kind |-> "resolved", value |-> "success", attempt |-> fnCalls]
          /\ (fnErrors = <<>> => fnCalls = 1 /\ waits = <<>>)
    /\ (rpc = "rejected" /\ AllThrottled /\ maxRetries >= 1) => fnCalls = maxRetries

\* C11 witness: a throttled message and a 'Too Many Requests' message, then a
\* success on the third and last attempt.
C11_Witness ==
    /\ rpc = "resolved"
    /\ maxRetries = 3
    /\ fnCalls = 3
    /\ Len(fnErrors) = 2
    /\ fnErrors[1].message = "Request was throttled"
    /\ fnErrors[2].message = "Too Many Requests"
    /\ retryResult.value = "success"

\* C12: when the $batch request fails on every attempt executeBatch makes,
\* getUserMfaInfo resolves to the sentinel MfaInfo: mfaStatus 'Unknown',
\* defaultMethod 'Error', all eight method flags false.
C12_SentinelOnBatchFailure ==
    (mfaPc = "resolved" /\ rpc = "rejected" /\ fnCalls >= 1) => mfaReturn = SentinelMfaInfo

\* C13: a non-200 or missing methods response counts as an empty method list
\* and a non-200 or missing preference response as an empty object, each
\* without failing the lookup or discarding the other half; with both non-200
\* the result is 'Disabled', 'Not set', all flags false.
C13_HalvesJudgedSeparately ==
    (mfaPc = "resolved" /\ rpc = "resolved") =>
        LET r == response.responses
            methodsFailed == Len(r) < 1 \/ r[1].status # HttpOk
            prefFailed == Len(r) < 2 \/ r[2].status # HttpOk
            noFlags == [SentinelMfaInfo EXCEPT !.defaultMethod = mfaReturn.defaultMethod,
                                               !.mfaStatus = "Disabled"]
        IN  /\ (methodsFailed /\ prefFailed)
               => mfaReturn = [noFlags EXCEPT !.defaultMethod = "Not set"]
            /\ (methodsFailed /\ ~prefFailed /\ r[2].body.kind = "preference")
               => /\ mfaReturn = noFlags
                  /\ mfaReturn.defaultMethod = IF r[2].body.preferred = "undefined"
                                               THEN "Not set"
                                               ELSE r[2].body.preferred
            /\ (~methodsFailed /\ prefFailed /\ r[1].body.kind = "methods")
               => /\ mfaReturn.defaultMethod = "Not set"
                  /\ mfaReturn.mfaStatus \in {"Enabled", "Disabled"}
                  /\ mfaReturn.emailAuth
                        = Has(r[1].body.value, "#microsoft.graph.emailAuthenticationMethod")
                  /\ mfaReturn.phoneAuth
                        = Has(r[1].body.value, "#microsoft.graph.phoneAuthenticationMethod")
                  /\ (r[1].body.value # <<>>
                      /\ \A k \in 1..Len(r[1].body.value) :
                            r[1].body.value[k].type
                                # "#microsoft.graph.passwordAuthenticationMethod")
                     => mfaReturn.mfaStatus = "Enabled"

\* C13 witness: the methods call answered 404 and the preference call 403.
C13_Witness ==
    /\ mfaPc = "resolved"
    /\ rpc = "resolved"
    /\ Len(response.responses) = 2
    /\ response.responses[1].status = 404
    /\ response.responses[2].status = 403
    /\ mfaReturn.mfaStatus = "Disabled"
    /\ mfaReturn.defaultMethod = "Not set"

Eligible(q) == {k \in 1..Len(q) : q[k].type = "#microsoft.graph.group" /\ q[k].securityEnabled}
Occurrences(q, x) == Cardinality({k \in 1..Len(q) : q[k] = x})

\* C14: getUserSecurityGroups returns exactly the display names of the
\* memberships of type '#microsoft.graph.group' with securityEnabled true,
\* sorted ascending, and count is the number of such memberships; groups that
\* are not security-enabled and security-enabled administrative units are
\* left out.
C14_SecurityGroupsOnly ==
    (grpPc = "resolved" /\ rpc = "resolved" /\ memberOf.hasValue) =>
        LET m == memberOf.value
            g == groupReturn.groups
        IN  /\ groupReturn.count = Cardinality(Eligible(m))
            /\ Len(g) = groupReturn.count
            /\ \A name \in {NameAB, NameB, NameC, NameD} :
                  Occurrences(g, name)
                      = Cardinality({k \in Eligible(m) : m[k].displayName = name})
            /\ \A j, k \in 1..Len(g) : j < k => ~StrLess(g[k], g[j])
            /\ Occurrences(g, NameC) = 0
            /\ Occurrences(g, NameD) = 0

\* C14 witness: one security-enabled group, one group that is not
\* security-enabled and one security-enabled administrative unit give exactly
\* the one eligible group.
C14_Witness ==
    /\ grpPc = "resolved"
    /\ rpc = "resolved"
    /\ memberOf.hasValue
    /\ Len(memberOf.value) = 3
    /\ {memberOf.value[k].displayName : k \in 1..3} = {NameB, NameC, NameD}
    /\ groupReturn = [groups |-> <<NameB>>, count |-> 1]

\* C15: getUserSecurityGroups never rejects; whenever the membership request
\* fails (a non-throttling error, the retry budget exhausted, a rejection with
\* nothing, a response without value) it resolves to {groups: [], count: 0}.
C15_GroupsNeverReject ==
    /\ grpPc \in {"idle", "retryWithBackoff", "resolved"}
    /\ (grpPc = "resolved" /\ (rpc = "rejected" \/ ~memberOf.hasValue))
       => groupReturn = EmptyGroups

\* C15 witness: three throttled attempts exhausted the budget and the lookup
\* resolved to the empty result.
C15_Witness ==
    /\ grpPc = "resolved"
    /\ rpc = "rejected"
    /\ maxRetries = 3
    /\ fnCalls = 3
    /\ Len(waits) = 2
    /\ groupReturn = EmptyGroups

Elements(q) == {q[k] : k \in 1..Len(q)}
StrictlyAscending(q) == \A j, k \in 1..Len(q) : j < k => StrLess(q[j], q[k])

\* C16: getUserLicenseDetails returns licenseSkus = the deduplicated, ascending
\* display names of the assignments, licenseCount = the number of assignment
\* entries, servicePlans = the deduplicated, ascending union over the
\* assignments of the catalog plan names with provisioningStatus 'Success' and
\* an id outside that assignment's disabledPlans; an absent or empty list gives
\* empty lists and count 0.
C16_LicenseDetails ==
    licenseCalls >= 1 =>
        LET a == inputUser.assignedLicenses.list
            known == {k \in 1..Len(a) : a[k].skuId \in DOMAIN licenseSkuMap}
            names == {licenseSkuMap[a[k].skuId].displayName : k \in known}
                         \cup {a[k].skuId : k \in (1..Len(a)) \ known}
            plans == UNION {{pl.servicePlanName :
                                pl \in {p \in Elements(licenseSkuMap[a[k].skuId].servicePlans) :
                                           /\ p.provisioningStatus = "Success"
                                           /\ p.servicePlanId \notin a[k].disabledPlans}} :
                            k \in known}
        IN  /\ licenseReturn.licenseCount = Len(a)
            /\ Elements(licenseReturn.licenseSkus) = names
            /\ StrictlyAscending(licenseReturn.licenseSkus)
            /\ Elements(licenseReturn.servicePlans) = plans
            /\ StrictlyAscending(licenseReturn.servicePlans)
            /\ (~inputUser.assignedLicenses.present \/ a = <<>>) => licenseReturn = EmptyDetails

\* C16 witness: two assignments whose SKUs share one friendly name, the second
\* with a plan disabled: one name, count 2.
C16_Witness ==
    /\ licenseCalls >= 1
    /\ Len(inputUser.assignedLicenses.list) = 2
    /\ inputUser.assignedLicenses.list[1].skuId = SkuS3
    /\ inputUser.assignedLicenses.list[2] = [skuId |-> SkuS2, disabledPlans |-> {"p2"}]
    /\ licenseReturn = [licenseSkus |-> <<NameA>>, licenseCount |-> 2,
                        servicePlans |-> <<PlanR>>]

\* C17: an assignment whose skuId has no catalog entry is named by its raw
\* skuId and contributes no service plans; the single assignment {skuId: 'X'}
\* gives licenseSkus ['X'] and servicePlans [].
C17_UnknownSkuFallback ==
    licenseCalls >= 1 =>
        LET a == inputUser.assignedLicenses.list
        IN  /\ \A k \in 1..Len(a) :
                  a[k].skuId \notin DOMAIN licenseSkuMap
                      => a[k].skuId \in Elements(licenseReturn.licenseSkus)
            /\ (\A k \in 1..Len(a) : a[k].skuId \notin DOMAIN licenseSkuMap)
                  => licenseReturn.servicePlans = <<>>
            /\ (Len(a) = 1 /\ a[1].skuId = SkuX)
                  => /\ licenseReturn.licenseSkus = <<SkuX>>
                     /\ licenseReturn.servicePlans = <<>>

\* C17 witness: the catalog holds SKUs, none of them 'X', and the user has the
\* one assignment 'X'.
C17_Witness ==
    /\ licenseCalls >= 1
    /\ DOMAIN licenseSkuMap = {SkuS1, SkuS2, SkuS3}
    /\ Len(inputUser.assignedLicenses.list) = 1
    /\ inputUser.assignedLicenses.list[1].skuId = SkuX
    /\ licenseReturn = [licenseSkus |-> <<SkuX>>, licenseCount |-> 1, servicePlans |-> <<>>]

C19_PremiumGating ==
    licenseCalls >= 1 =>
        LET activity == inputUser.signInActivity
            stamped == activity.present /\ activity.lastSuccessfulSignInDateTime # "undefined"
        IN  /\ ~hasPremium => lastSignIn = "No Microsoft Entra ID Premium license"
            /\ (hasPremium /\ stamped) => lastSignIn = activity.lastSuccessfulSignInDateTime
            /\ (hasPremium /\ ~stamped) => lastSignIn = "No sign in"

\* C19 witness: a user with a sign-in timestamp processed without the premium
\* entitlement.
C19_Witness ==
    /\ licenseCalls >= 1
    /\ ~hasPremium
    /\ inputUser.signInActivity.lastSuccessfulSignInDateTime = "2025-01-01T00:00:00Z"
    /\ lastSignIn = "No Microsoft Entra ID Premium license"

\* C20: in a run of main the catalog is built once and buildLicenseSkuMap has
\* settled before the first processUser starts; from the start of
\* processAllUsers on, no step writes the catalog.
C20_CatalogBuiltBeforeFanOut ==
    [][/\ buildCalls' = 1
       /\ (\E u \in Indices : started'[u] > 0) => buildPc' = "settled"
       /\ (pc' # "idle") => (buildPc' = "settled" /\ licenseSkuMap' = licenseSkuMap)]_vars

\* C20 witness: the fan-out is under way on a catalog that holds the SKUs.
C20_Witness ==
    /\ mainPc = "processAllUsers"
    /\ buildPc = "settled"
    /\ DOMAIN licenseSkuMap = {SkuS1, SkuS2, SkuS3}
    /\ \E u \in Indices : started[u] > 0 /\ task[u] = "running"
    /\ \E u \in Indices : task[u] = "fulfilled"

\* C21: when a page request of getAllUsers fails after its retries,
\* getAllUsers rejects with that error and hands back none of the users it had
\* accumulated, and main aborts: processAllUsers and exportToCSV are never
\* invoked and the process exits with code 1.
C21_ListingFailureIsFatal ==
    pageError # "none" =>
        /\ listReturn = [kind |-> "rejected", value |-> <<>>, error |-> pageError]
        /\ mainPc \in {"getAllUsers", "exit1"}
        /\ pc = "idle"
        /\ \A u \in Indices : started[u] = 0
        /\ csvPc = "idle"

\* C21 witness: the second page failed after a first page of users had been
\* accumulated, and the process has exited with code 1.
C21_Witness ==
    /\ pageError = "Internal Server Error"
    /\ Len(listed) >= 1
    /\ Len(listed) < Len(users)
    /\ listReturn.kind = "rejected"
    /\ mainPc = "exit1"

\* The subscribed-SKU listing call of buildLicenseSkuMap failed.
SkuCallFailed == buildInput.outcome.kind = "rejected"

\* C22 as stated: a failed subscribed-SKU listing call is fatal; the run
\* aborts before any user is listed or processed and exits with a non-zero
\* code.
C22_CatalogFailureIsFatal ==
    SkuCallFailed =>
        /\ mainPc \in {"buildLicenseSkuMap", "exit1"}
        /\ listPc = "idle"
        /\ pc = "idle"

\* C22 amended: a failed subscribed-SKU listing call is not fatal.
\* buildLicenseSkuMap catches it and resolves with the catalog left empty,
\* and main goes on to list and process the users; the process exits with
\* code 1 only when a later step (listing, processing, export) fails.
C22_CatalogFailureIsNotFatal ==
    SkuCallFailed =>
        /\ buildPc = "settled"
        /\ licenseSkuMap = EmptyMap
        /\ mainPc = "exit1" => listPc # "idle"

C22_Witness ==
    /\ SkuCallFailed
    /\ mainPc = "done"
    /\ Len(output) >= 1

\* The download of the friendly names failed.
NamesUnreachable == buildInput.names = "unreachable"

\* Every assignment of the user whose skuId the catalog lacks is named by
\* that raw skuId in the license details.
RawIdsForMissingSkus ==
    LET a == inputUser.assignedLicenses.list
    IN  \A k \in 1..Len(a) :
            a[k].skuId \notin DOMAIN licenseSkuMap
                => a[k].skuId \in Elements(licenseReturn.licenseSkus)

C24_RowsSortedByDisplayName ==
    csvPc = "resolved" =>
        /\ Len(csvRows) = Len(csvGiven)
        /\ \A k \in 1..Len(csvGiven) :
              Cardinality({j \in 1..Len(csvRows) : csvRows[j] = csvGiven[k]}) = 1
        /\ \A a, b \in 1..Len(csvRows) :
              a < b =>
                /\ localeCompare(DisplayNameOrEmpty(csvRows[a]),
                                 DisplayNameOrEmpty(csvRows[b])) <= 0
                /\ (~csvRows[b].displayName.defined \/ csvRows[b].displayName.name = <<>>)
                      => (~csvRows[a].displayName.defined \/ csvRows[a].displayName.name = <<>>)
                /\ DisplayNameOrEmpty(csvRows[a]) = DisplayNameOrEmpty(csvRows[b])
                      => csvRows[a].ID < csvRows[b].ID

\* C24 witness: three records given as 'B', undefined, 'a' are written as
\* undefined, 'a', 'B'.
C24_Witness ==
    /\ csvPc = "resolved"
    /\ Len(csvGiven) = 3
    /\ csvGiven[1].displayName = [defined |-> TRUE, name |-> <<66>>]
    /\ ~csvGiven[2].displayName.defined
    /\ csvGiven[3].displayName = [defined |-> TRUE, name |-> <<97>>]
    /\ csvRows = <<csvGiven[2], csvGiven[3], csvGiven[1]>>

\* C25: executeBatch never rejects.  When the POST succeeds it resolves with
\* the response the API gave, unchanged; when retryWithBackoff gives up (a
\* non-throttling error, or throttling on all maxRetries attempts) it
\* resolves with {responses: []}.
C25_ExecuteBatchNeverRejects ==
    mfaPc # "executeBatch" =>
        /\ mfaPc = "resolved"
        /\ rpc \in {"resolved", "rejected"}
        /\ rpc = "resolved" => response = retryResult.value
        /\ rpc = "rejected" =>
              /\ response = [responses |-> <<>>]
              /\ fnCalls >= 1
              /\ \/ ~isThrottlingError(fnErrors[Len(fnErrors)])
                 \/ fnCalls = maxRetries

\* C25 witness: the POST was throttled on all three attempts and executeBatch
\* resolved with no sub-responses.
C25_Witness ==
    /\ mfaPc = "resolved"
    /\ rpc = "rejected"
    /\ fnCalls = maxRetries
    /\ \A k \in 1..Len(fnErrors) : isThrottlingError(fnErrors[k])
    /\ response = [responses |-> <<>>]

\* C26: processAllUsers sets totalUsers and startTime (and zeroes processed
\* and errors) before any task has started; from then on totalUsers and
\* startTime never change, and processed and errors change only by steps of
\* +1, so they never decrease.
C26_StatsDiscipline ==
    [][/\ (pc = "idle" /\ pc' # "idle") =>
             /\ stats' = [totalUsers |-> Len(users), processed |-> 0, errors |-> 0,
                          startTime |-> now]
             /\ \A u \in Indices : started[u] = 0 /\ started'[u] = 0
       /\ pc # "idle" =>
             /\ stats'.totalUsers = stats.totalUsers
             /\ stats'.startTime = stats.startTime
             /\ stats'.processed \in {stats.processed, stats.processed + 1}
             /\ stats'.errors \in {stats.errors, stats.errors + 1}]_vars

\* C26 witness: one user processed, one failed, a third still running, with
\* the total and the start time as set at the start.
C26_Witness ==
    /\ stats.totalUsers = 3
    /\ stats.processed = 1
    /\ stats.errors = 1
    /\ stats.startTime = 0
    /\ now > 0
    /\ \E u \in Indices : task[u] = "running"

\* C27: with the default configuration maxConcurrency is 10, so a run never
\* has more than 10 users being processed at once.
C27_DefaultMaxConcurrencyIsTen ==
    /\ maxConcurrency = 10
    /\ activeCount <= 10

\* C28: admission is FIFO by submission order.  A user is never started
\* before a user submitted earlier; the queue holds the users not yet started
\* in submission order; once admission is over the first maxConcurrency users
\* have started; and a user beyond those starts only in the step in which a
\* running task settles, and is then the head of the queue.
C28_FifoAdmission ==
    /\ [](/\ \A u, v \in Indices : (u < v /\ started[v] >= 1) => started[u] >= 1
          /\ pc # "idle" =>
                \A k \in 1..Len(queue) : queue[k] = Len(users) - Len(queue) + k
          /\ pc \notin {"idle", "admitting"} =>
                \A u \in Indices : u <= maxConcurrency => started[u] >= 1)
    /\ [][\A v \in Indices :
            (started'[v] # started[v] /\ v > maxConcurrency) =>
                /\ queue # <<>>
                /\ v = Head(queue)
                /\ \E u \in Indices : task[u] = "running" /\ task'[u] # "running"]_vars

\* C28 witness: three users over one slot; the first has settled, the second
\* runs, the third is still queued.
C28_Witness ==
    /\ Len(users) = 3
    /\ maxConcurrency = 1
    /\ task[1] \notin {"queued", "running"}
    /\ task[2] = "running"
    /\ queue = <<3>>

\* C29: processUser issues the MFA lookup and the group lookup together when
\* it starts; the record is built, and processed incremented, only in a step
\* that leaves both lookups resolved; and the record is the one made from the
\* two values, whichever lookup completed first.
C29_JoinNotRace ==
    /\ [](\A u \in Indices :
            /\ (mfa[u] = "none") <=> (grp[u] = "none")
            /\ (mfa[u] = "none") <=> (started[u] = 0)
            /\ results[u].kind = "record" =>
                  /\ AllResolved(mfa[u], grp[u])
                  /\ results[u] = MakeRecord(u, mfa[u], grp[u]))
    /\ [][/\ \A u \in Indices :
              started'[u] # started[u] => (mfa'[u] = "pending" /\ grp'[u] = "pending")
          /\ stats'.processed # stats.processed =>
              \E u \in Indices :
                  /\ task[u] = "running"
                  /\ results[u].kind # "record"
                  /\ results'[u].kind = "record"
                  /\ AllResolved(mfa'[u], grp'[u])]_vars

\* C29 witness: of two running users, one has its MFA lookup resolved and its
\* group lookup pending, the other the reverse, and neither has a record yet.
C29_Witness ==
    /\ Len(users) >= 2
    /\ IsResolved(mfa[1]) /\ grp[1] = "pending"
    /\ mfa[2] = "pending" /\ IsResolved(grp[2])
    /\ task[1] = "running" /\ task[2] = "running"
    /\ stats.processed = 0

\* The method list getUserMfaInfo iterated: the body of a 200 methods
\* sub-response, else the empty list.
IteratedMethods ==
    IF SubResponseOk(response, 1) /\ response.responses[1].body.kind = "methods"
    THEN response.responses[1].body.value
    ELSE <<>>

MethodFlags ==
    {"emailAuth", "fido2Auth", "msAuthenticatorApp", "msAuthenticatorLite", "phoneAuth",
     "softwareOath", "temporaryAccessPass", "windowsHello"}

\* C30: in every MfaInfo getUserMfaInfo returns, mfaStatus is 'Enabled' iff
\* one of the eight flags is true; 'Unknown' comes with defaultMethod 'Error'
\* and no flag; each Microsoft Authenticator method sets msAuthenticatorApp
\* when its deviceTag is 'SoftwareTokenActivated' and msAuthenticatorLite
\* otherwise, never the other one; a method of an unrecognised type sets no
\* flag and leaves the status as it was.
C30_MfaInfoInvariants ==
    mfaPc = "resolved" =>
        LET r == mfaReturn
            methods == IteratedMethods
            anyFlag == \E f \in MethodFlags : r[f]
            authenticator == "#microsoft.graph.microsoftAuthenticatorAuthenticationMethod"
            password == "#microsoft.graph.passwordAuthenticationMethod"
            apps == {k \in 1..Len(methods) : /\ methods[k].type = authenticator
                                             /\ methods[k].deviceTag = "SoftwareTokenActivated"}
            lites == {k \in 1..Len(methods) : /\ methods[k].type = authenticator
                                              /\ methods[k].deviceTag # "SoftwareTokenActivated"}
            known == {k \in 1..Len(methods) : methods[k].type # password}
        IN  /\ r.mfaStatus \in {"Enabled", "Disabled", "Unknown"}
            /\ (r.mfaStatus = "Enabled") <=> anyFlag
            /\ r.mfaStatus = "Unknown" => (r.defaultMethod = "Error" /\ ~anyFlag)
            /\ r.mfaStatus # "Unknown" =>
                  /\ r.msAuthenticatorApp <=> apps # {}
                  /\ r.msAuthenticatorLite <=> lites # {}
                  /\ Cardinality(apps \cup lites) = 1
                        => (r.msAuthenticatorApp # r.msAuthenticatorLite)
                  /\ known = {} => (~anyFlag /\ r.mfaStatus = "Disabled")
                  /\ Cardinality({f \in MethodFlags : r[f]}) <= Cardinality(known)

\* C30 witness: an activated authenticator and a password method give
\* 'Enabled' with msAuthenticatorApp as the only flag.
C30_Witness ==
    /\ mfaPc = "resolved"
    /\ Len(IteratedMethods) = 2
    /\ IteratedMethods[1].deviceTag = "SoftwareTokenActivated"
    /\ IteratedMethods[2].type = "#microsoft.graph.passwordAuthenticationMethod"
    /\ mfaReturn.mfaStatus = "Enabled"
    /\ {f \in MethodFlags : mfaReturn[f]} = {"msAuthenticatorApp"}

\* ---------------------------------------------------------------- C31
IsPrefix(a, b) == Len(a) <= Len(b) /\ a = SubSeq(b, 1, Len(a))

ListedInPageOrder ==
    /\ IsPrefix(listed, users)
    /\ listPc = "paging" =>
          /\ nextLink = [present |-> TRUE, base |-> "", skip |-> Len(listed)]
          /\ rpc \in {"loop", "awaitFn", "waiting", "rejected"}
    /\ listPc = "resolved" =>
          /\ listReturn = [kind |-> "resolved", value |-> users, error |-> "none"]
          /\ nextLink = NullLink

PageStep ==
    /\ listed' # listed =>
          /\ rpc = "awaitFn"
          /\ listPc = "paging"
          /\ IsPrefix(listed, listed')
    /\ (listPc = "paging" /\ listPc' = "resolved") =>
          /\ rpc = "awaitFn"
          /\ Len(listed') = Len(users)
    /\ (listed' # listed /\ listPc' = "paging") =>
          /\ Len(listed') < Len(users)
          /\ i' = 0
          /\ fnCalls' = 0
          /\ rpc' = "loop"
    /\ fnCalls' <= maxRetries

\* C31: getAllUsers resolves with every user of every page, in page order:
\* the pages are requested one at a time, each request follows the nextLink of
\* the response before it, the loop stops only at a response without a
\* nextLink, and each page request starts with a retry budget of its own.
C31_AllPagesInOrder == [](ListedInPageOrder) /\ [][PageStep]_vars

\* Two pages, and more backoff waits in all than one retry budget allows.
C31_Witness ==
    /\ listPc = "resolved"
    /\ Len(users) = 2
    /\ listReturn.value = users
    /\ Len(waits) >= maxRetries

\* ---------------------------------------------------------------- C32
Unsettled == Cardinality({u \in Indices : ~Settled(u)})

\* C32: in every state of a processAllUsers run processed + errors + the
\* number of users whose processUser has not settled equals totalUsers,
\* whatever the lookups and the record construction do; at completion
\* processed + errors = totalUsers and there are as many records as processed.
C32_ExactlyOnceAccounting ==
    /\ pc # "idle" => stats.processed + stats.errors + Unsettled = stats.totalUsers
    /\ pc = "resolved" =>
          /\ stats.processed + stats.errors = stats.totalUsers
          /\ Len(output) = stats.processed

\* ---------------------------------------------------------------- C33
PendingLookups ==
    Cardinality({u \in Indices : mfa[u] = "pending"})
    + Cardinality({u \in Indices : grp[u] = "pending"})

\* C33: in every state of a processAllUsers run the lookups (getUserMfaInfo
\* and getUserSecurityGroups calls) issued and not yet settled number at most
\* 2 * maxConcurrency, also when one of a user's lookups rejects while the
\* other is still pending.
C33_LookupsWithinBudget == PendingLookups <= 2 * maxConcurrency

\* ---------------------------------------------------------------- C34
\* The entries of a batch response, each at the index of the request it
\* answers.
InRequestOrder(resp) ==
    IF Len(resp.responses) = 2 /\ resp.responses[1].id = RequestId(1)
    THEN Reversed(resp)
    ELSE resp

\* C34: the MfaInfo getUserMfaInfo returns is the same for every order of the
\* entries of the batch response: the methods and the preference are taken
\* from the entries with ids '1' and '2', wherever they stand.
C34_MfaInfoByRequestId ==
    mfaPc = "resolved" => mfaReturn = MfaInfoOf(InRequestOrder(response))

\* ------------------------------- UserProcessor over the services of main
\* main hands UserProcessor an MfaService over a BatchService and a
\* GroupService, both over the Graph client.  What the network does to a
\* lookup's request, as retryWithBackoff settles with it: a failure after the
\* retries, or a response.
NetworkFailures ==
    {[kind |-> "rejected",
      error |-> [statusCode |-> shape.statusCode, message |-> shape.message, attempt |-> 1]] :
        shape \in FnErrorShapes}

BatchSuccesses ==
    {[kind |-> "resolved",
      value |-> [responses |-> <<[id |-> RequestId(0), status |-> HttpOk,
                                  body |-> Body("methods", <<m>>, "undefined")],
                                 [id |-> RequestId(1), status |-> HttpOk,
                                  body |-> Body("preference", <<>>, "push")]>>]] :
        m \in {a \in AuthMethods : a.type \in RecognisedTypes}}

MemberOfSuccesses ==
    {[kind |-> "resolved", value |-> [hasValue |-> TRUE, value |-> <<g>>]] :
        g \in {h \in Memberships : IsSecurityGroup(h)}}

\* getUserMfaInfo over executeBatch: the status of the MfaInfo it resolves
\* with.
WiredMfaOutcome(net) ==
    LET settled == IF net.kind = "rejected" THEN BatchCatch(net.error) ELSE net
    IN  IF settled.kind = "resolved"
        THEN MfaInfoOf(settled.value).mfaStatus
        ELSE SentinelMfaInfo.mfaStatus

\* getUserSecurityGroups: whether it resolves with groups, resolves with the
\* empty result of its catch block, or rejects.
WiredGroupOutcome(net) ==
    IF net.kind = "resolved"
    THEN IF SecurityGroupsOf(net.value).count > 0 THEN "Groups" ELSE "NoGroups"
    ELSE IF GroupCatch(net.error) = "resolved" THEN "NoGroups"
    ELSE ErrorReason

WiredMfaOutcomes == {WiredMfaOutcome(net) : net \in BatchSuccesses \cup NetworkFailures}
WiredGroupOutcomes == {WiredGroupOutcome(net) : net \in MemberOfSuccesses \cup NetworkFailures}

MfaSettlesWired == \E u \in Indices, o \in WiredMfaOutcomes : MfaSettle(u, o, "ok")
GroupSettlesWired == \E u \in Indices, o \in WiredGroupOutcomes : GroupSettle(u, o, "ok")

NextWired ==
    \/ ProcessAllUsersStart
    \/ Admit
    \/ MfaSettlesWired
    \/ GroupSettlesWired
    \/ ClearInterval
    \/ FinalRender
    \/ Return
    \/ Tick
    \/ Advance

SpecWired == Init /\ [][NextWired]_vars

\* ---------------------------------------------------------------- C35
\* With the successes above, a lookup that met a network failure is one that
\* resolved without data.
MfaAbsorbed(u) == mfa[u] \in {"Disabled", "Unknown"}
GroupAbsorbed(u) == grp[u] = "NoGroups"

\* C35: over the real MfaService, GroupService and BatchService a network
\* failure of a user's MFA or group request stays inside the lookup: the
\* lookup resolves, the user is emitted as a record with the sentinel or empty
\* values, processed counts the user and errors is never incremented.
C35_NetworkFailureAbsorbed ==
    /\ stats.errors = 0
    /\ \A u \in Indices :
          /\ ~IsRejected(mfa[u]) /\ ~IsRejected(grp[u])
          /\ Settled(u) =>
                /\ task[u] = "fulfilled"
                /\ results[u] = MakeRecord(u, mfa[u], grp[u])
    /\ stats.processed = Cardinality({u \in Indices : Settled(u)})
    /\ pc = "resolved" =>
          /\ stats.processed = Len(users)
          /\ output = [u \in Indices |-> MakeRecord(u, mfa[u], grp[u])]

C35_Witness ==
    /\ pc = "resolved"
    /\ Len(users) >= 2
    /\ MfaAbsorbed(1)
    /\ GroupAbsorbed(2)
    /\ output[1].mfaStatus = "Disabled"
    /\ output[2].securityGroups = "NoGroups"
    /\ stats.processed = Len(users)
    /\ stats.errors = 0

\* ---------------------------------------------------------------- C36
RaisedByFn(error) == \E k \in 1..Len(fnErrors) : fnErrors[k] = error

\* C36: retryWithBackoff calls fn at least once whatever maxRetries is, and
\* when it rejects it rejects with an error fn raised; with maxRetries = 0 the
\* operation is still attempted once.
C36_AttemptedAtLeastOnce ==
    /\ rpc \in {"resolved", "rejected"} => fnCalls >= 1
    /\ rpc = "rejected" => RaisedByFn(retryResult.error)

\* ---------------------------------------------------------------- C37
FatalError ==
    \/ buildPc = "rejected"
    \/ listReturn.kind = "rejected"
    \/ pc = "rejected"
    \/ csvPc = "rejected"

RunOutcome ==
    /\ pc # "rejected"
    /\ mainPc = "exit1" => (listReturn.kind = "rejected" \/ csvPc = "rejected")
    /\ mainPc \in {"exportToCSV", "done"} =>
          /\ pc = "resolved"
          /\ csvPc # "idle"
          /\ csvGiven = CsvRecordsOf(output)
          /\ Len(output) = stats.processed
          /\ stats.processed + stats.errors = Len(users)
    /\ mainPc = "done" => csvPc = "resolved" /\ ~FatalError
    /\ csvPc # "idle" => mainPc \in {"exportToCSV", "done", "exit1"}

ExportCalledOnce ==
    /\ csvPc # "idle" => csvPc' # "idle"
    /\ (csvPc = "idle" /\ csvPc' # "idle") =>
          /\ pc = "resolved"
          /\ mainPc = "processAllUsers"
          /\ mainPc' = "exportToCSV"
          /\ Len(users) > 0
    /\ (mainPc = "exportToCSV" /\ mainPc' # mainPc) =>
          mainPc' = (IF csvPc = "resolved" THEN "done" ELSE "exit1")

\* C37: per-user enrichment failures never change the outcome of the run:
\* for a non-empty user list, however many users fail (all of them included,
\* when the record list is empty), main calls exportToCSV exactly once after
\* processAllUsers has resolved and ends with the summary and exit code 0;
\* exit code 1 comes only from an error that reaches the catch block of main.
C37_FailuresDoNotChangeOutcome == [](RunOutcome) /\ [][ExportCalledOnce]_vars

\* Every user failed, and the run still exported and completed.
C37_Witness ==
    /\ mainPc = "done"
    /\ Len(users) = 2
    /\ stats.errors = 2
    /\ output = <<>>
    /\ csvGiven = <<>>
    /\ csvPc = "resolved"

\* ---------------------------------------------------------------- C38
CountersOfThisCall ==
    pc # "idle" =>
       /\ stats.totalUsers = Len(users)
       /\ stats.processed = Cardinality({u \in Indices : results[u].kind = "record"})
       /\ stats.errors = Cardinality({u \in Indices : results[u] = NoRecord})

SnapshotStep ==
    /\ snapshot' # snapshot =>
          /\ stats' = stats
          /\ snapshot'.ref = "copy"
          /\ \/ snapshot'.value = stats
             \/ \E field \in DOMAIN stats :
                   snapshot' = [snapshot EXCEPT !.value = Overwrite(snapshot.value, field)]
    /\ stats' # stats => snapshot' = snapshot

\* C38: counters do not leak between runs on one UserProcessor: during and
\* after a second processAllUsers call, started once the first has resolved,
\* getStats() reports totalUsers, processed and errors of that call only; and
\* getStats() returns a copy, so writing to the returned object never
\* changes the counters of the processor.
C38_NoLeakBetweenRuns == [](CountersOfThisCall) /\ [][SnapshotStep]_vars

\* A first run of two users with one failure, seen in the copy taken after
\* it and since overwritten by the caller, then a second run of one user.
C38_Witness ==
    /\ finalRenders = 2
    /\ pc = "resolved"
    /\ snapshot.ref = "copy"
    /\ snapshot.value.totalUsers = 2
    /\ snapshot.value.errors = 1
    /\ snapshot.value.processed = Overwrite(stats, "processed").processed
    /\ stats.totalUsers = 1
    /\ stats.processed = 1
    /\ stats.errors = 0
    /\ Len(output) = 1

====
